---- MODULE Spec2Model ----
(***************************************************************************)
(* Model of ckoutz/super_strength.                                         *)
(*                                                                         *)
(* utils/tcx_parser.py: the TCX activity reducer (_parse_tcx_tree) and its *)
(* three entry points parse_tcx, parse_tcx_text and load_tcx_from_upload   *)
(* (Spec), and two calls of load_tcx_from_upload at once (SpecConc).       *)
(* utils/save_log.py: save_log_row on training_log.csv (SpecLog).          *)
(* utils/get_today_plan.py and pages/Weekly.py: the plan of a date and the *)
(* Save and Reset buttons of the Weekly page (SpecPlan).                   *)
(*                                                                         *)
(* Numbers are fixed point.  Inputs: Time in milliseconds, altitude and    *)
(* distance in millimetres, heart rate and cadence in whole units.         *)
(* Outputs: the fields rounded to 2 places are in hundredths, pace (3      *)
(* places) in thousandths, hr_drift (4 places) in ten-thousandths.         *)
(* round() is modelled as exact round-half-to-even; the inputs are chosen  *)
(* so that no value falls on a tie, where binary floats can differ.        *)
(***************************************************************************)
EXTENDS Integers, Sequences, FiniteSets, TLC

VARIABLES
    given,      \* the upload handle as the caller hands it in
    upload,     \* the handle as the call has left it so far
    entry,      \* the entry point called
    pc,         \* where the call stands
    result,     \* what the call returned
    attempts,   \* the parse attempts load_tcx_from_upload has made
    \* Two calls of load_tcx_from_upload running at once:
    cGiven,     \* the handle each call was given
    cUpload,    \* each handle as the calls have left it so far
    cPc,        \* where each call stands
    cLocals,    \* the local variables parsed and text of each call frame
    cResult,    \* what each call returned
    overlapped, \* a call has taken a step while the other was under way
    \* The training log, utils/save_log.py:
    logFile,    \* training_log.csv: whether it exists and its data rows
    lastSaved,  \* for each day, the row save_log_row was last given
    saves,      \* the number of save_log_row calls made
    \* The weekly plan, pages/Weekly.py and utils/get_today_plan.py:
    weekFile,   \* data/week_overrides.json
    lastEdit,   \* the last button pressed on the Weekly page, and on what
    edits,      \* the number of buttons pressed
    \* A call of one of the functions that keep no state:
    call,       \* the function called and its arguments
    ret,        \* what it returned
    \* Two calls of save_log_row running at once:
    saver       \* the row, the position and the frames read of each call

tcxVars == <<given, upload, entry, pc, result, attempts>>

concVars == <<cGiven, cUpload, cPc, cLocals, cResult, overlapped>>

logVars == <<logFile, lastSaved, saves>>

planVars == <<weekFile, lastEdit, edits>>

fnVars == <<call, ret>>

saveVars == <<saver>>

vars == <<tcxVars, concVars, logVars, planVars, fnVars, saveVars>>

(***************************************************************************)
(* Bounds                                                                  *)
(***************************************************************************)
\* Largest number of trackpoints of a generated trace.
MaxTp == 3

\* Largest number of trackpoints of a trace that varies one sampled field
\* (altitude or heart rate).
MaxSamples == 4

(***************************************************************************)
(* Input values                                                            *)
(***************************************************************************)
\* A Time element: absent (missing or empty text), bad (text that
\* datetime.fromisoformat rejects), or an ISO timestamp written without an
\* offset ("naive") or with the 'Z' suffix.
AbsentTime == [k |-> "absent", ms |-> 0, form |-> "naive"]
BadTime == [k |-> "bad", ms |-> 0, form |-> "naive"]
TimeText(ms, form) == [k |-> "time", ms |-> ms, form |-> form]

\* A numeric element: absent, bad (text float() rejects), or a number.
AbsentNum == [k |-> "absent", v |-> 0]
BadNum == [k |-> "bad", v |-> 0]
NumText(v) == [k |-> "num", v |-> v]

\* The float that float("nan") returns: float() accepts the text "nan", and
\* every comparison with the value is false.  It stands here as a number no
\* sample and no reported field can take.
NaN == -999999

TimeInputs ==
    {AbsentTime, BadTime, TimeText(0, "naive"), TimeText(60000, "naive"),
     TimeText(1234, "naive"), TimeText(0, "Z"), TimeText(60000, "Z")}

DistInputs ==
    {AbsentNum, BadNum, NumText(4), NumText(500000), NumText(1000000)}

HrInputs == {AbsentNum, BadNum, NumText(140), NumText(170)}

CadInputs == {AbsentNum, NumText(85)}

AltInputs == {AbsentNum, BadNum, NumText(100000), NumText(105000)}

Trackpoint(t, h, c, a, d) ==
    [time |-> t, hr |-> h, cad |-> c, alt |-> a, dist |-> d]

\* Traces that vary Time only.
TimeTrackpoints ==
    {Trackpoint(t, AbsentNum, AbsentNum, AbsentNum, AbsentNum) :
        t \in TimeInputs}

\* Traces that vary DistanceMeters under an ordered, reversed or missing Time.
DistTrackpoints ==
    {Trackpoint(t, AbsentNum, AbsentNum, AbsentNum, d) :
        t \in {AbsentTime, TimeText(0, "naive"), TimeText(60000, "naive")},
        d \in DistInputs}

\* Trackpoints that vary the other three fields.
OtherTrackpoints(t) ==
    {Trackpoint(t, h, c, a, AbsentNum) :
        h \in HrInputs, c \in CadInputs, a \in AltInputs}

OtherTraces ==
    {<<a, b>> : a \in OtherTrackpoints(TimeText(0, "naive")),
                b \in OtherTrackpoints(TimeText(60000, "naive"))}

\* Traces that vary AltitudeMeters only, or the heart rate only: the first
\* trackpoint is stamped 0 s and every later one 60 s.
AltSamples == AltInputs \cup {NumText(102000), NumText(110000)}

HrSamples ==
    {AbsentNum, NumText(0), NumText(140), NumText(150), NumText(160),
     NumText(170), NumText(NaN)}

StampOf(i) == IF i = 1 THEN TimeText(0, "naive") ELSE TimeText(60000, "naive")

\* The trace that carries the altitude samples a, and the one that carries
\* the heart-rate samples h.
AltTrace(a) ==
    [i \in 1..Len(a) |->
        Trackpoint(StampOf(i), AbsentNum, AbsentNum, a[i], AbsentNum)]

HrTrace(h) ==
    [i \in 1..Len(h) |->
        Trackpoint(StampOf(i), h[i], AbsentNum, AbsentNum, AbsentNum)]

(***************************************************************************)
(* Arithmetic                                                              *)
(***************************************************************************)
\* round(n / d) for d > 0, ties to even, as Python's round() does.
RoundDiv(n, d) ==
    LET q == n \div d
        r == n % d
    IN  IF 2 * r < d THEN q
        ELSE IF 2 * r > d THEN q + 1
        ELSE q + (q % 2)

\* round(x, 2) of a value held in thousandths, in hundredths.
Round2(x) == RoundDiv(x, 10)

RECURSIVE SumSeq(_)
SumSeq(s) == IF s = <<>> THEN 0 ELSE Head(s) + SumSeq(Tail(s))

\* The largest element of a sequence of numbers.
RECURSIVE MaxSeq(_)
MaxSeq(s) ==
    IF Len(s) = 1 THEN s[1]
    ELSE LET m == MaxSeq(Tail(s)) IN IF m > s[1] THEN m ELSE s[1]

\* One stage of the long division of a * f1 * f2 ... by b: qr holds the
\* floor and the remainder so far.
MulStage(qr, f, b) ==
    [q |-> qr.q * f + (qr.r * f) \div b, r |-> (qr.r * f) % b]

(***************************************************************************)
(* _parse_tcx_tree                                                         *)
(***************************************************************************)
ZeroMetrics ==
    [duration_sec |-> 0, distance_m |-> 0, avg_hr |-> 0, max_hr |-> 0,
     avg_cadence |-> 0, elevation_gain_m |-> 0, pace_min_per_km |-> 0,
     hr_drift |-> 0]

\* The three outcomes of a call: None, a metrics record, an exception.
None == [kind |-> "none", m |-> ZeroMetrics]
Raised == [kind |-> "raise", m |-> ZeroMetrics]
Record(m) == [kind |-> "metrics", m |-> m]

\* datetime.fromisoformat(t.text.replace("Z", "+00:00")): a timestamp
\* written with 'Z' becomes offset-aware, one without an offset is naive.
FromIsoFormat(t) == [ms |-> t.ms, aware |-> (t.form = "Z")]

\* Mutant: text that float() rejects is counted as a sample of 0.
AppendNum_BadAsZero(list, f) ==
    IF f.k = "num" THEN Append(list, f.v)
    ELSE IF f.k = "bad" THEN Append(list, 0)
    ELSE list

\* The try/append/except of one numeric field.
AppendNum(list, f) == IF f.k = "num" THEN Append(list, f.v) ELSE list

AppendTime(list, t) ==
    IF t.k = "time" THEN Append(list, FromIsoFormat(t)) ELSE list

EmptyLists ==
    [times |-> <<>>, hrs |-> <<>>, cadence |-> <<>>, altitude |-> <<>>,
     distance |-> <<>>]

\* The extraction loop over the trackpoints, from trackpoint i on.
RECURSIVE ExtractFields(_, _, _)
ExtractFields(trackpoints, i, acc) ==
    IF i > Len(trackpoints) THEN acc
    ELSE LET tp == trackpoints[i]
         IN  ExtractFields(trackpoints, i + 1,
                 [times |-> AppendTime(acc.times, tp.time),
                  hrs |-> AppendNum(acc.hrs, tp.hr),
                  cadence |-> AppendNum(acc.cadence, tp.cad),
                  altitude |-> AppendNum(acc.altitude, tp.alt),
                  distance |-> AppendNum(acc.distance, tp.dist)])

\* Mutant: a single timestamp is let through.
TooFewTimes_One(times) == Len(times) < 1

\* len(times) < 2
TooFewTimes(times) == Len(times) < 2

\* times[-1] - times[0] raises TypeError when exactly one of them is aware.
SubtractRaises(times) == times[Len(times)].aware # times[1].aware

\* Mutant: the span of the sorted timestamps, latest minus earliest.
DurationOf_Sorted(times) ==
    LET ms == [i \in 1..Len(times) |-> times[i].ms]
    IN  MaxSeq(ms) + MaxSeq([i \in 1..Len(ms) |-> 0 - ms[i]])

\* Mutant: the last timestamp alone, the first is not subtracted.
DurationOf_LastOnly(times) == times[Len(times)].ms

\* (times[-1] - times[0]).total_seconds(), in milliseconds.
DurationOf(times) == times[Len(times)].ms - times[1].ms

\* Mutant: the largest distance sample instead of the last.
TotalDistance_Max(distance) ==
    IF distance # <<>> THEN MaxSeq(distance) ELSE 0

\* distance[-1] if distance else 0.0
TotalDistance(distance) ==
    IF distance # <<>> THEN distance[Len(distance)] ELSE 0

HasNaN(xs) == \E i \in 1..Len(xs) : xs[i] = NaN

\* sum(xs) / len(xs) if xs else 0, rounded to 2 places: a sum over a NaN
\* is NaN.
AvgOf(xs) ==
    IF xs = <<>> THEN 0
    ELSE IF HasNaN(xs) THEN NaN
    ELSE RoundDiv(SumSeq(xs) * 100, Len(xs))

\* The builtin max(xs): it keeps its first item and replaces it by each
\* later item that compares greater, which no NaN does and nothing does
\* over a NaN.
RECURSIVE PyMax(_, _, _)
PyMax(xs, i, best) ==
    IF i > Len(xs) THEN best
    ELSE PyMax(xs, i + 1,
               IF xs[i] # NaN /\ best # NaN /\ xs[i] > best
                   THEN xs[i] ELSE best)

\* max(hrs) if hrs else 0, rounded to 2 places.
MaxOf(xs) ==
    IF xs = <<>> THEN 0
    ELSE LET m == PyMax(xs, 2, xs[1]) IN IF m = NaN THEN NaN ELSE m * 100

\* Mutant: descents are subtracted, the net climb is reported.
RECURSIVE ElevGain_Net(_, _)
ElevGain_Net(altitude, i) ==
    IF i > Len(altitude) THEN 0
    ELSE altitude[i] - altitude[i - 1] + ElevGain_Net(altitude, i + 1)

\* The elevation loop: the sum of the positive steps altitude[i-1] -> [i].
RECURSIVE ElevGain(_, _)
ElevGain(altitude, i) ==
    IF i > Len(altitude) THEN 0
    ELSE LET diff == altitude[i] - altitude[i - 1]
         IN  (IF diff > 0 THEN diff ELSE 0) + ElevGain(altitude, i + 1)

\* (duration_sec / 60) / (total_distance / 1000), rounded to 3 places:
\* duration_ms * 50000 / (3 * distance_mm) thousandths of a minute per km.
PaceQuotient(duration_ms, distance_mm) ==
    LET b == 3 * distance_mm
        s0 == [q |-> duration_ms \div b, r |-> duration_ms % b]
        s1 == MulStage(s0, 250, b)
        s2 == MulStage(s1, 200, b)
    IN  IF 2 * s2.r < b THEN s2.q
        ELSE IF 2 * s2.r > b THEN s2.q + 1
        ELSE s2.q + (s2.q % 2)

\* The guard of the pace computation.
HasDistance(total_distance) == total_distance > 0

\* Mutant: pace computed from the rounded duration and distance.
PaceOf_FromRounded(duration_ms, total_distance) ==
    IF Round2(total_distance) > 0
        THEN PaceQuotient(Round2(duration_ms) * 10, Round2(total_distance) * 10)
        ELSE 0

PaceOf(duration_ms, total_distance) ==
    IF HasDistance(total_distance)
        THEN PaceQuotient(duration_ms, total_distance)
        ELSE 0

\* Mutant: the split point is rounded up, the odd sample joins the first half.
HrDrift_SplitCeil(hrs) ==
    IF hrs # <<>>
        THEN LET half == (Len(hrs) + 1) \div 2
                 s1 == SumSeq(SubSeq(hrs, 1, half))
                 s2 == SumSeq(SubSeq(hrs, half + 1, Len(hrs)))
                 n2 == Len(hrs) - half
             IN  IF n2 > 0 /\ ~HasNaN(SubSeq(hrs, 1, half)) /\ s1 > 0
                     THEN IF HasNaN(SubSeq(hrs, half + 1, Len(hrs)))
                              THEN NaN
                              ELSE RoundDiv((s2 * half - s1 * n2) * 10000,
                                            s1 * n2)
                     ELSE 0
        ELSE 0

\* hr_drift, rounded to 4 places.
HrDrift(hrs) ==
    IF hrs # <<>>
        THEN LET half == Len(hrs) \div 2
                 s1 == SumSeq(SubSeq(hrs, 1, half))
                 s2 == SumSeq(SubSeq(hrs, half + 1, Len(hrs)))
                 n2 == Len(hrs) - half
             IN  IF half > 0
                     THEN IF ~HasNaN(SubSeq(hrs, 1, half)) /\ s1 > 0
                              THEN IF HasNaN(SubSeq(hrs, half + 1, Len(hrs)))
                                       THEN NaN
                                       ELSE RoundDiv((s2 * half - s1 * n2)
                                                         * 10000, s1 * n2)
                              ELSE 0
                     ELSE 0
        ELSE 0

\* The returned dict.
MetricsOf(f) ==
    [duration_sec |-> Round2(DurationOf(f.times)),
     distance_m |-> Round2(TotalDistance(f.distance)),
     avg_hr |-> AvgOf(f.hrs),
     max_hr |-> MaxOf(f.hrs),
     avg_cadence |-> AvgOf(f.cadence),
     elevation_gain_m |-> Round2(ElevGain(f.altitude, 2)),
     pace_min_per_km |-> PaceOf(DurationOf(f.times),
                                TotalDistance(f.distance)),
     hr_drift |-> HrDrift(f.hrs)]

\* _parse_tcx_tree(root) on the trackpoints root.findall found.
parse_tcx_tree(trackpoints) ==
    IF trackpoints = <<>> THEN None
    ELSE LET f == ExtractFields(trackpoints, 1, EmptyLists)
         IN  IF TooFewTimes(f.times) THEN None
             ELSE IF SubtractRaises(f.times) THEN Raised
             ELSE Record(MetricsOf(f))

(***************************************************************************)
(* Documents and upload handles                                            *)
(***************************************************************************)
\* A document is a sequence of tokens: the prolog and root start tag (with
\* or without the TrainingCenterDatabase namespace), one token per
\* Trackpoint element, the closing tags, a byte that is not valid UTF-8,
\* and stray markup that is not well-formed XML.
NoTp == Trackpoint(AbsentTime, AbsentNum, AbsentNum, AbsentNum, AbsentNum)
OpenTok == [tok |-> "open", tp |-> NoTp]
OpenNoNsTok == [tok |-> "open_nons", tp |-> NoTp]
CloseTok == [tok |-> "close", tp |-> NoTp]
BadByteTok == [tok |-> "bad", tp |-> NoTp]
JunkTok == [tok |-> "junk", tp |-> NoTp]
TpTok(tp) == [tok |-> "tp", tp |-> tp]

Document(open, trace) ==
    <<open>> \o [i \in 1..Len(trace) |-> TpTok(trace[i])] \o <<CloseTok>>

InsertAt(doc, k, t) == SubSeq(doc, 1, k) \o <<t>> \o SubSeq(doc, k + 1, Len(doc))

\* The trackpoints written in a document, whatever surrounds them.
TraceOf(content) ==
    LET tps == SelectSeq(content, LAMBDA t : t.tok = "tp")
    IN  [i \in 1..Len(tps) |-> tps[i].tp]

\* An upload handle: its content, its read position, whether seek() and
\* read() work, and whether read() returns bytes (else str).
Handle(content, pos, seekable, readable, bytes) ==
    [present |-> TRUE, content |-> content, pos |-> pos,
     seekable |-> seekable, readable |-> readable, bytes |-> bytes]

\* upload is None
NoUpload ==
    [present |-> FALSE, content |-> <<>>, pos |-> 0,
     seekable |-> FALSE, readable |-> FALSE, bytes |-> FALSE]

\* What the XML parser accepts: a root start tag, trackpoints, the end tags.
WellFormed(data) ==
    /\ Len(data) >= 2
    /\ data[1].tok \in {"open", "open_nons"}
    /\ data[Len(data)].tok = "close"
    /\ \A i \in 2..(Len(data) - 1) : data[i].tok = "tp"

\* root.findall(".//tcx:Trackpoint", ns): elements outside the namespace
\* do not match.
FindAll(data) ==
    IF data[1].tok = "open"
        THEN [i \in 1..(Len(data) - 2) |-> data[i + 1].tp]
        ELSE <<>>

\* ET.parse / ET.fromstring followed by _parse_tcx_tree, before the except.
ParseDocument(data) ==
    IF WellFormed(data) THEN parse_tcx_tree(FindAll(data)) ELSE Raised

\* except Exception: return None
ExceptReturnNone(outcome) == IF outcome.kind = "raise" THEN None ELSE outcome

\* What read() returns: the content from the read position on.
Remaining(u) == SubSeq(u.content, u.pos + 1, Len(u.content))

\* raw.decode("utf-8", errors="ignore")
Decode(raw) == SelectSeq(raw, LAMBDA t : t.tok # "bad")

\* Mutant: the rewind is missing.
Seek0_NoRewind(u) == u

\* upload.seek(0)
Seek0(u) == [u EXCEPT !.pos = 0]

ParseTcxBody(file_obj) ==
    IF ~file_obj.present \/ ~file_obj.readable THEN Raised
    ELSE ParseDocument(Remaining(file_obj))

\* Mutant: parse_tcx without its except clause.
parse_tcx_NoExcept(file_obj) == ParseTcxBody(file_obj)

parse_tcx(file_obj) == ExceptReturnNone(ParseTcxBody(file_obj))

parse_tcx_text(text) == ExceptReturnNone(ParseDocument(text))

\* The handles ET.parse can leave behind: it reads to the end of a document
\* it accepts and stops somewhere after the read position at an error.
AfterParse(u) ==
    IF ~u.present \/ ~u.readable THEN {u}
    ELSE IF WellFormed(Remaining(u)) THEN {[u EXCEPT !.pos = Len(u.content)]}
    ELSE {[u EXCEPT !.pos = p] : p \in u.pos..Len(u.content)}

\* Mutant: the binary result is never taken, the text path always runs.
Truthy_Never(parsed) == FALSE

\* if parsed:
Truthy(parsed) == parsed.kind = "metrics"

\* The try block of load_tcx_from_upload: seek, read, decode, parse.
TextPathBody(u) ==
    IF ~u.seekable THEN Raised
    ELSE IF ~u.readable THEN Raised
    ELSE IF ~u.bytes THEN Raised
    ELSE parse_tcx_text(Decode(Remaining(Seek0(u))))

TextPath(u) == ExceptReturnNone(TextPathBody(u))

\* The handle after the try block.
AfterTextPath(u) ==
    IF ~u.seekable THEN u
    ELSE IF ~u.readable THEN Seek0(u)
    ELSE [u EXCEPT !.pos = Len(u.content)]

\* What load_tcx_from_upload(u) can return, the steps LoadCall, LoadBinary
\* and LoadText taken together.
LoadOutcomes(u) ==
    IF ~u.present THEN {None}
    ELSE LET parsed == parse_tcx(u)
         IN  IF parsed.kind = "raise" \/ Truthy(parsed) THEN {parsed}
             ELSE {TextPath(v) : v \in AfterParse(u)}

(***************************************************************************)
(* Inputs of the entry points                                              *)
(***************************************************************************)
GoodTrace ==
    <<Trackpoint(TimeText(0, "naive"), AbsentNum, AbsentNum, AbsentNum,
                 NumText(4)),
      Trackpoint(TimeText(60000, "naive"), AbsentNum, AbsentNum, AbsentNum,
                 NumText(1000000))>>

ShortTrace ==
    <<Trackpoint(TimeText(0, "naive"), AbsentNum, AbsentNum, AbsentNum,
                 NumText(4))>>

MixedTrace ==
    <<Trackpoint(TimeText(0, "Z"), AbsentNum, AbsentNum, AbsentNum,
                 AbsentNum),
      Trackpoint(TimeText(60000, "naive"), AbsentNum, AbsentNum, AbsentNum,
                 AbsentNum)>>

HandleTraces == {GoodTrace, ShortTrace, MixedTrace}

\* Documents handed over in a handle that may misbehave: complete,
\* without the namespace, truncated, with stray markup, with an invalid
\* byte somewhere, and empty.
HandleContents ==
    {<<>>}
    \cup {Document(OpenTok, t) : t \in HandleTraces}
    \cup {Document(OpenNoNsTok, t) : t \in HandleTraces}
    \cup {SubSeq(Document(OpenTok, t), 1, Len(t) + 1) : t \in HandleTraces}
    \cup UNION {{InsertAt(Document(OpenTok, t), k, x) : k \in 0..(Len(t) + 2)} :
                   t \in HandleTraces, x \in {BadByteTok, JunkTok}}

HasBadByte(content) == \E i \in 1..Len(content) : content[i].tok = "bad"

\* A handle whose read() returns str holds decoded text: no invalid byte.
HandlesOf(c) ==
    {Handle(c, p, s, r, b) :
        p \in 0..Len(c), s \in BOOLEAN, r \in BOOLEAN,
        b \in IF HasBadByte(c) THEN {TRUE} ELSE BOOLEAN}

\* No upload, and the handles that may misbehave.
HandleUploads == {NoUpload} \cup UNION {HandlesOf(c) : c \in HandleContents}

\* A complete document of the trace in a handle that behaves.
TraceUpload(trace) == Handle(Document(OpenTok, trace), 0, TRUE, TRUE, TRUE)

\* The uploads handed to the entry points: the handles that may misbehave,
\* and complete documents of traces that vary the Time, the distance, the
\* other three fields, the altitude alone and the heart rate alone.
GivenUpload(u) ==
    \/ u \in HandleUploads
    \/ \E k \in 0..MaxTp : \E t \in [1..k -> TimeTrackpoints] :
           u = TraceUpload(t)
    \/ \E k \in 0..MaxTp : \E t \in [1..k -> DistTrackpoints] :
           u = TraceUpload(t)
    \/ \E t \in OtherTraces : u = TraceUpload(t)
    \/ \E k \in 2..MaxSamples : \E a \in [1..k -> AltSamples] :
           u = TraceUpload(AltTrace(a))
    \/ \E k \in 2..MaxSamples : \E h \in [1..k -> HrSamples] :
           u = TraceUpload(HrTrace(h))

(***************************************************************************)
(* The calls                                                               *)
(***************************************************************************)
\* The two concurrent calls.
Procs == {1, 2}

\* No concurrent call is under way.
ConcIdle ==
    /\ cGiven = [p \in Procs |-> NoUpload]
    /\ cUpload = [p \in Procs |-> NoUpload]
    /\ cPc = [p \in Procs |-> "idle"]
    /\ cLocals = [p \in Procs |-> [parsed |-> None, text |-> <<>>]]
    /\ cResult = [p \in Procs |-> None]
    /\ overlapped = FALSE

\* No single call is under way.
TcxIdle ==
    /\ given = NoUpload
    /\ upload = NoUpload
    /\ entry = "none"
    /\ pc = "idle"
    /\ result = None
    /\ attempts = <<>>

\* The days the log is written for.
LogDays == {1, 2, 3}

\* A cell of a row: a Python value (None or a str) before it is written,
\* the text of the CSV field once it is.
NoValue == [k |-> "none", s |-> ""]
Str(s) == [k |-> "str", s |-> s]

\* No row has been saved.
LogIdle ==
    /\ logFile = [exists |-> FALSE, rows |-> <<>>]
    /\ lastSaved = [d \in LogDays |-> [saved |-> FALSE, notes |-> NoValue]]
    /\ saves = 0

\* A dict without a key.
EmptyDict == [k \in {} |-> 0]

\* No button of the Weekly page has been pressed and no override is stored.
NoEdit ==
    [kind |-> "none", week |-> 0, rows |-> <<>>, before |-> EmptyDict]

PlanIdle ==
    /\ weekFile = [exists |-> FALSE, valid |-> FALSE, data |-> EmptyDict]
    /\ lastEdit = NoEdit
    /\ edits = 0

\* No function is being called.
NoCall == [fn |-> "none"]

FnIdle == call = NoCall /\ ret = NoCall

\* No two save_log_row calls are under way.
NoFrame == [pc |-> "idle", day |-> 0, notes |-> NoValue, df_all |-> <<>>]

SaverIdle == saver = [p \in Procs |-> NoFrame]

nonTcxVars == <<concVars, logVars, planVars, fnVars, saveVars>>

nonConcVars == <<tcxVars, logVars, planVars, fnVars, saveVars>>

nonLogVars == <<tcxVars, concVars, planVars, fnVars, saveVars>>

nonPlanVars == <<tcxVars, concVars, logVars, fnVars, saveVars>>

nonFnVars == <<tcxVars, concVars, logVars, planVars, saveVars>>

Init ==
    /\ GivenUpload(given)
    /\ upload = given
    /\ entry = "none"
    /\ pc = "idle"
    /\ result = None
    /\ attempts = <<>>
    /\ ConcIdle
    /\ LogIdle
    /\ PlanIdle
    /\ FnIdle
    /\ SaverIdle

\* parse_tcx(upload)
ParseTcx ==
    /\ pc = "idle"
    /\ entry' = "parse_tcx"
    /\ result' = parse_tcx(upload)
    /\ upload' \in AfterParse(upload)
    /\ pc' = "done"
    /\ UNCHANGED <<given, attempts>>
    /\ UNCHANGED nonTcxVars

\* parse_tcx_text(text) on the decoded content of the upload
ParseTcxText ==
    /\ pc = "idle"
    /\ entry' = "parse_tcx_text"
    /\ result' = parse_tcx_text(Decode(upload.content))
    /\ pc' = "done"
    /\ UNCHANGED <<given, upload, attempts>>
    /\ UNCHANGED nonTcxVars

\* load_tcx_from_upload(upload): the None test
LoadCall ==
    /\ pc = "idle"
    /\ entry' = "load_tcx_from_upload"
    /\ IF ~upload.present
           THEN pc' = "done" /\ result' = None
           ELSE pc' = "binary" /\ UNCHANGED result
    /\ UNCHANGED <<given, upload, attempts>>
    /\ UNCHANGED nonTcxVars

\* parsed = parse_tcx(upload); if parsed: return parsed
LoadBinary ==
    /\ pc = "binary"
    /\ LET parsed == parse_tcx(upload)
       IN  /\ attempts' = Append(attempts, [path |-> "binary", out |-> parsed])
           /\ IF parsed.kind = "raise" \/ Truthy(parsed)
                  THEN pc' = "done" /\ result' = parsed
                  ELSE pc' = "text" /\ UNCHANGED result
    /\ upload' \in AfterParse(upload)
    /\ UNCHANGED <<given, entry>>
    /\ UNCHANGED nonTcxVars

\* the text fallback and its except
LoadText ==
    /\ pc = "text"
    /\ LET out == TextPath(upload)
       IN  /\ attempts' = Append(attempts, [path |-> "text", out |-> out])
           /\ result' = out
    /\ upload' = AfterTextPath(upload)
    /\ pc' = "done"
    /\ UNCHANGED <<given, entry>>
    /\ UNCHANGED nonTcxVars

Next == ParseTcx \/ ParseTcxText \/ LoadCall \/ LoadBinary \/ LoadText

Spec == Init /\ [][Next]_vars

(***************************************************************************)
(* Two calls of load_tcx_from_upload at once                               *)
(***************************************************************************)
\* The handles given to concurrent calls: a document both paths accept, one
\* with an invalid byte that only the text path accepts, one with mixed
\* timestamps, one with stray markup; read from the start or already
\* consumed, with and without seek().
ConcContents ==
    {Document(OpenTok, GoodTrace),
     InsertAt(Document(OpenTok, GoodTrace), 1, BadByteTok),
     Document(OpenTok, MixedTrace),
     InsertAt(Document(OpenTok, ShortTrace), 1, JunkTok)}

ConcUploads ==
    {NoUpload}
    \cup {Handle(c, 0, s, TRUE, TRUE) : c \in ConcContents, s \in BOOLEAN}
    \cup {Handle(c, Len(c), s, TRUE, TRUE) :
            c \in ConcContents, s \in BOOLEAN}

\* Mutant: one frame for both calls, as if parsed and text were globals.
FrameOf_Shared(p) == 1

\* The frame that holds the locals of call p: each call has its own.
FrameOf(p) == p

ConcInit ==
    /\ cGiven \in [Procs -> ConcUploads]
    /\ cUpload = cGiven
    /\ cPc = [p \in Procs |-> "idle"]
    /\ cLocals = [p \in Procs |-> [parsed |-> None, text |-> <<>>]]
    /\ cResult = [p \in Procs |-> None]
    /\ overlapped = FALSE
    /\ TcxIdle
    /\ LogIdle
    /\ PlanIdle
    /\ FnIdle
    /\ SaverIdle

\* A step of call p while some other call is between its first and its
\* last step.
Overlaps(p) == \E q \in Procs \ {p} : cPc[q] \notin {"idle", "done"}

Step(p) == overlapped' = (overlapped \/ Overlaps(p))

\* if upload is None: return None
ConcCall(p) ==
    /\ cPc[p] = "idle"
    /\ IF ~cUpload[p].present
           THEN /\ cPc' = [cPc EXCEPT ![p] = "done"]
                /\ cResult' = [cResult EXCEPT ![p] = None]
           ELSE /\ cPc' = [cPc EXCEPT ![p] = "binary"]
                /\ UNCHANGED cResult
    /\ Step(p)
    /\ UNCHANGED <<cGiven, cUpload, cLocals>>
    /\ UNCHANGED nonConcVars

\* parsed = parse_tcx(upload)
ConcBinary(p) ==
    /\ cPc[p] = "binary"
    /\ cLocals' = [cLocals EXCEPT ![FrameOf(p)].parsed = parse_tcx(cUpload[p])]
    /\ \E u \in AfterParse(cUpload[p]) : cUpload' = [cUpload EXCEPT ![p] = u]
    /\ cPc' = [cPc EXCEPT ![p] = "test"]
    /\ Step(p)
    /\ UNCHANGED <<cGiven, cResult>>
    /\ UNCHANGED nonConcVars

\* if parsed: return parsed
ConcTest(p) ==
    /\ cPc[p] = "test"
    /\ IF Truthy(cLocals[FrameOf(p)].parsed)
           THEN /\ cPc' = [cPc EXCEPT ![p] = "done"]
                /\ cResult' = [cResult EXCEPT ![p] = cLocals[FrameOf(p)].parsed]
           ELSE /\ cPc' = [cPc EXCEPT ![p] = "read"]
                /\ UNCHANGED cResult
    /\ Step(p)
    /\ UNCHANGED <<cGiven, cUpload, cLocals>>
    /\ UNCHANGED nonConcVars

\* upload.seek(0); raw = upload.read(); text = raw.decode(...), and the
\* except that returns None
ConcRead(p) ==
    /\ cPc[p] = "read"
    /\ LET u == cUpload[p]
       IN  IF ~u.seekable \/ ~u.readable \/ ~u.bytes
               THEN /\ cPc' = [cPc EXCEPT ![p] = "done"]
                    /\ cResult' = [cResult EXCEPT ![p] = None]
                    /\ UNCHANGED cLocals
               ELSE /\ cPc' = [cPc EXCEPT ![p] = "parse"]
                    /\ cLocals' = [cLocals EXCEPT ![FrameOf(p)].text =
                                       Decode(Remaining(Seek0(u)))]
                    /\ UNCHANGED cResult
    /\ cUpload' = [cUpload EXCEPT ![p] = AfterTextPath(cUpload[p])]
    /\ Step(p)
    /\ UNCHANGED cGiven
    /\ UNCHANGED nonConcVars

\* return parse_tcx_text(text)
ConcParseText(p) ==
    /\ cPc[p] = "parse"
    /\ cResult' = [cResult EXCEPT ![p] = parse_tcx_text(cLocals[FrameOf(p)].text)]
    /\ cPc' = [cPc EXCEPT ![p] = "done"]
    /\ Step(p)
    /\ UNCHANGED <<cGiven, cUpload, cLocals>>
    /\ UNCHANGED nonConcVars

ConcNext ==
    \E p \in Procs :
        \/ ConcCall(p)
        \/ ConcBinary(p)
        \/ ConcTest(p)
        \/ ConcRead(p)
        \/ ConcParseText(p)

SpecConc == ConcInit /\ [][ConcNext]_vars

(***************************************************************************)
(* utils/save_log.py: save_log_row                                         *)
(***************************************************************************)
\* Largest number of save_log_row calls.
MaxSaves == 3

\* The date of a row: a day written as a datetime.date, as an ISO string,
\* as a timestamp with a time of day, or text pd.to_datetime rejects.
DateForms == {"date", "iso", "datetime", "bad"}

DateValue(day, form) == [day |-> day, form |-> form]

\* pd.to_datetime(...).dt.date.astype(str): the day as an ISO string.
NormalizeDate(d) == DateValue(d.day, "iso")

\* The notes a row can carry.
NotesValues == {NoValue, Str(""), Str("felt good"), Str("n/a")}

LogRows ==
    {[date |-> DateValue(day, form), notes |-> n] :
        day \in LogDays, form \in DateForms, n \in NotesValues}

\* The texts read_csv takes for a missing value (its default na_values).
NaTexts == {"", "n/a", "NA", "null", "NaN"}

\* to_csv: None and NaN are written as the empty field, a str as it is.
ToCsv(v) == IF v.k = "none" THEN "" ELSE v.s

\* read_csv: a field whose text is an NA text is NaN, any other a str.
FromCsv(text) == IF text \in NaTexts THEN NoValue ELSE Str(text)

\* A field that holds an unquoted comma: its line has more fields than the
\* header, which read_csv rejects (ParserError).
RaggedText == "felt good,oops"

\* pd.read_csv(LOG_FILE) raises.
ReadCsvRaises(file) ==
    \E i \in 1..Len(file.rows) : file.rows[i].notes = RaggedText

\* pd.to_datetime(df_old["date"]) raises: a stored date is no date.
OldDatesRaise(file) ==
    \E i \in 1..Len(file.rows) : file.rows[i].date.form = "bad"

\* pd.read_csv(LOG_FILE) and the normalisation of its date column.
ReadLog(file) ==
    [i \in 1..Len(file.rows) |->
        [date |-> NormalizeDate(file.rows[i].date),
         notes |-> FromCsv(file.rows[i].notes)]]

\* Mutant: no row is dropped before the new one is added.
KeepRow_All(r, new_date) == TRUE

\* df_old["date"] != new_date
KeepRow(r, new_date) == r.date # new_date

\* df_all.to_csv(LOG_FILE, index=False)
WriteLog(df) ==
    [exists |-> TRUE,
     rows |-> [i \in 1..Len(df) |->
                  [date |-> df[i].date, notes |-> ToCsv(df[i].notes)]]]

\* save_log_row(row).  An unparseable date raises at the normalisation of
\* the new row, before the file is read, and one stored in a file that
\* was read raises at the normalisation of the old rows: nothing is
\* written.  A file read_csv rejects counts as an empty log.
SaveLogRow ==
    /\ saves < MaxSaves
    /\ saves' = saves + 1
    /\ \E row \in LogRows :
        IF row.date.form = "bad"
            THEN UNCHANGED <<logFile, lastSaved>>
        ELSE IF logFile.exists /\ ~ReadCsvRaises(logFile)
                    /\ OldDatesRaise(logFile)
            THEN UNCHANGED <<logFile, lastSaved>>
            ELSE LET df_new == [row EXCEPT !.date = NormalizeDate(row.date)]
                     df_old == IF logFile.exists /\ ~ReadCsvRaises(logFile)
                                   THEN ReadLog(logFile)
                                   ELSE <<>>
                     df_all ==
                         IF df_old # <<>>
                             THEN Append(
                                 SelectSeq(df_old,
                                     LAMBDA r : KeepRow(r, df_new.date)),
                                 df_new)
                             ELSE <<df_new>>
                 IN  /\ logFile' = WriteLog(df_all)
                     /\ lastSaved' = [lastSaved EXCEPT ![row.date.day] =
                                         [saved |-> TRUE, notes |-> row.notes]]
    /\ UNCHANGED nonLogVars

\* The log before the first save: absent, or a file without a data row
\* (zero bytes, which read_csv rejects, or a header alone).
LogInit ==
    /\ logFile \in {[exists |-> FALSE, rows |-> <<>>],
                    [exists |-> TRUE, rows |-> <<>>]}
    /\ lastSaved = [d \in LogDays |-> [saved |-> FALSE, notes |-> NoValue]]
    /\ saves = 0
    /\ TcxIdle
    /\ ConcIdle
    /\ PlanIdle
    /\ FnIdle
    /\ SaverIdle

LogNext == SaveLogRow

SpecLog == LogInit /\ [][LogNext]_vars

\* The rows a log can hold before a save, whoever wrote them: a date as
\* an ISO string, with a time of day, or no date at all, and notes that
\* read_csv reads as text, reads as a missing value, or cannot read.
PriorRows ==
    {[date |-> DateValue(day, form), notes |-> n] :
        day \in {1, 2}, form \in {"iso", "datetime", "bad"},
        n \in {"felt good", "n/a", RaggedText}}

\* Any prior state of the log: absent, or a file of up to two rows, two
\* of one date included.
LogAnyInit ==
    /\ \E n \in 0..2 : \E rows \in [1..n -> PriorRows] :
           \/ logFile = [exists |-> TRUE, rows |-> rows]
           \/ n = 0 /\ logFile = [exists |-> FALSE, rows |-> <<>>]
    /\ lastSaved = [d \in LogDays |-> [saved |-> FALSE, notes |-> NoValue]]
    /\ saves = 0
    /\ TcxIdle
    /\ ConcIdle
    /\ PlanIdle
    /\ FnIdle
    /\ SaverIdle

SpecLogAny == LogAnyInit /\ [][LogNext]_vars

(***************************************************************************)
(* utils/get_today_plan.py and pages/Weekly.py                             *)
(*                                                                         *)
(* A date is a day number; day 0 is a Monday, so date.weekday() is the     *)
(* day number modulo 7.  The keys str(weekday) and monday.isoformat() of   *)
(* the JSON dicts stand as the numbers they are written from.              *)
(***************************************************************************)
\* Largest number of buttons pressed on the Weekly page.
MaxEdits == 2

\* A JSON value of a plan: a list of workout ids, or one id on its own.
ListOf(ids) == [list |-> TRUE, ids |-> ids]
Scalar(id) == [list |-> FALSE, ids |-> <<id>>]

\* w if isinstance(w, list) else [w]
AsList(w) == IF w.list THEN w.ids ELSE <<w.ids[1]>>

weekday(d) == d % 7

\* The phases as load_phases returns them, in dict order.  Phase 1A runs
\* from a Wednesday to a Tuesday and phase 1B follows it to a Sunday; days
\* 0 and 1 lie in no phase.  Thursday and Sunday have no entry, Friday's is
\* one id on its own, and week 2 of phase 1A replaces its Monday.
Phases ==
    <<[name |-> "1A", start |-> 2, end |-> 15,
       days |-> (0 :> ListOf(<<"workout_A">>))
                @@ (1 :> ListOf(<<"Z2_run">>))
                @@ (2 :> ListOf(<<"workout_B", "Z2_run">>))
                @@ (4 :> Scalar("workout_A"))
                @@ (5 :> ListOf(<<"ALT_SATURDAY">>)),
       weeks |-> (2 :> ((0 :> ListOf(<<"tempo_run">>))))],
      [name |-> "1B", start |-> 16, end |-> 20,
       days |-> (2 :> ListOf(<<"workout_B">>))
                @@ (5 :> ListOf(<<"ALT_SATURDAY", "Z2_run">>)),
       weeks |-> EmptyDict]>>

\* The Mondays of the weeks the Weekly page is opened on.
Mondays == {0, 7, 14}

NoPhase == [name |-> "", start |-> 0, end |-> 0 - 1,
            days |-> EmptyDict, weeks |-> EmptyDict]

\* find_active_phase: the first phase, in dict order, that contains the
\* date; (None, None) is NoPhase.
RECURSIVE FindPhaseFrom(_, _, _)
FindPhaseFrom(selected_date, phases, i) ==
    IF i > Len(phases) THEN NoPhase
    ELSE IF phases[i].start <= selected_date /\ selected_date <= phases[i].end
        THEN phases[i]
    ELSE FindPhaseFrom(selected_date, phases, i + 1)

find_active_phase(selected_date, phases) ==
    FindPhaseFrom(selected_date, phases, 1)

\* Mutant: the weeks of a phase are counted from 0.
get_week_number_FromZero(selected_date, phase_data) ==
    (selected_date - phase_data.start) \div 7

get_week_number(selected_date, phase_data) ==
    ((selected_date - phase_data.start) \div 7) + 1

get_base_workouts_for_day(selected_date, phase_data) ==
    LET dow == weekday(selected_date)
    IN  IF dow \notin DOMAIN phase_data.days THEN <<>>
        ELSE AsList(phase_data.days[dow])

apply_week_overrides_static(selected_date, phase_data, base_workouts) ==
    LET weeks_cfg == phase_data.weeks
        week_num == get_week_number(selected_date, phase_data)
        dow == weekday(selected_date)
    IN  IF DOMAIN weeks_cfg = {} THEN base_workouts
        ELSE IF week_num \notin DOMAIN weeks_cfg THEN base_workouts
        ELSE IF dow \notin DOMAIN weeks_cfg[week_num] THEN base_workouts
        ELSE AsList(weeks_cfg[week_num][dow])

Contains(workouts, id) == \E i \in 1..Len(workouts) : workouts[i] = id

resolve_alt_saturday(selected_date, workouts, phase_data) ==
    IF ~Contains(workouts, "ALT_SATURDAY") THEN workouts
    ELSE IF weekday(selected_date) # 5 THEN workouts
    ELSE LET week_num == get_week_number(selected_date, phase_data)
             alt_id == IF week_num % 2 = 0 THEN "workout_B" ELSE "workout_A"
         IN  [i \in 1..Len(workouts) |->
                 IF workouts[i] = "ALT_SATURDAY" THEN alt_id ELSE workouts[i]]

\* load_week_overrides of the page and _load_week_overrides of the
\* resolver, the same code: {} when the file is missing or json.load
\* raises, else the data with every value that is not a list wrapped in one.
load_week_overrides(file) ==
    IF ~file.exists \/ ~file.valid THEN EmptyDict
    ELSE [w \in DOMAIN file.data |->
             [dow \in DOMAIN file.data[w] |->
                 ListOf(AsList(file.data[w][dow]))]]

week_monday(any_date) == any_date - weekday(any_date)

\* monday.isoformat() of the week that holds the date
WeekKeyOf(selected_date) == week_monday(selected_date)

\* Mutant: the override of the Weekly page is added to the day's list
\* instead of replacing it.
apply_dynamic_week_overrides_Append(selected_date, current_workouts, file) ==
    LET week_overrides == load_week_overrides(file)
        week_key == WeekKeyOf(selected_date)
        dow == weekday(selected_date)
    IN  IF DOMAIN week_overrides = {} THEN current_workouts
        ELSE IF week_key \notin DOMAIN week_overrides THEN current_workouts
        ELSE IF dow \notin DOMAIN week_overrides[week_key]
            THEN current_workouts
        ELSE current_workouts \o AsList(week_overrides[week_key][dow])

apply_dynamic_week_overrides(selected_date, current_workouts, file) ==
    LET week_overrides == load_week_overrides(file)
        week_key == WeekKeyOf(selected_date)
        dow == weekday(selected_date)
    IN  IF DOMAIN week_overrides = {} THEN current_workouts
        ELSE IF week_key \notin DOMAIN week_overrides THEN current_workouts
        ELSE IF dow \notin DOMAIN week_overrides[week_key]
            THEN current_workouts
        ELSE AsList(week_overrides[week_key][dow])

\* primary_workout_id is None
NoId == ""

Plan(phase_name, primary_id, secondary_ids) ==
    [phase |-> phase_name, primary |-> primary_id,
     secondary |-> secondary_ids]

\* The layers 1 to 3: the days mapping, the phase's weeks, ALT_SATURDAY.
BaseLayers(selected_date, phase_data) ==
    resolve_alt_saturday(selected_date,
        apply_week_overrides_static(selected_date, phase_data,
            get_base_workouts_for_day(selected_date, phase_data)),
        phase_data)

\* primary_id = final_workouts[0]; secondary_ids = final_workouts[1:]
PlanFrom(phase_name, final_workouts) ==
    IF final_workouts = <<>> THEN Plan(phase_name, NoId, <<>>)
    ELSE Plan(phase_name, final_workouts[1], Tail(final_workouts))

get_today_plan(selected_date, phases, file) ==
    LET phase_data == find_active_phase(selected_date, phases)
    IN  IF phase_data = NoPhase THEN Plan("Off-plan", NoId, <<>>)
        ELSE PlanFrom(phase_data.name,
                 apply_dynamic_week_overrides(selected_date,
                     BaseLayers(selected_date, phase_data), file))

\* ids of build_week_rows: the primary id, if any, then the secondary ids.
IdsOf(plan) ==
    (IF plan.primary # NoId THEN <<plan.primary>> ELSE <<>>)
        \o plan.secondary

\* build_week_rows: the workout_ids of the seven days from Monday on.
build_week_rows(week_ref, file) ==
    [i \in 1..7 |->
        IdsOf(get_today_plan(week_monday(week_ref) + (i - 1), Phases, file))]

\* save_week_overrides: json.dump of the dict.
save_week_overrides(data) == [exists |-> TRUE, valid |-> TRUE, data |-> data]

\* The orders sort_items hands back (the row shown in each slot, slots and
\* rows counted from 1): untouched, Monday and Tuesday exchanged, Monday
\* and Saturday exchanged, Wednesday and Sunday exchanged, Monday dragged
\* to the end, and the week reversed.
Reorderings ==
    {<<1, 2, 3, 4, 5, 6, 7>>, <<2, 1, 3, 4, 5, 6, 7>>,
     <<6, 2, 3, 4, 5, 1, 7>>, <<1, 2, 7, 4, 5, 6, 3>>,
     <<2, 3, 4, 5, 6, 7, 1>>, <<7, 6, 5, 4, 3, 2, 1>>}

\* reordered_rows = [week_rows[i] for i in sorted_indices]
ReorderedRows(week_rows, order) == [slot \in 1..7 |-> week_rows[order[slot]]]

\* week_overrides[week_start.isoformat()] = mapping
WithWeek(week_overrides, key, mapping) == (key :> mapping) @@ week_overrides

\* Mutant: the reset forgets the overrides of every week.
WithoutWeek_Clear(week_overrides, key) == EmptyDict

\* del week_overrides[week_start.isoformat()]
WithoutWeek(week_overrides, key) ==
    [w \in (DOMAIN week_overrides) \ {key} |-> week_overrides[w]]

\* The files the page can find: none, one json.load rejects, and one
\* written by hand that gives the Monday of week 14 as one id on its own.
WeekFiles ==
    {[exists |-> FALSE, valid |-> FALSE, data |-> EmptyDict],
     [exists |-> TRUE, valid |-> FALSE, data |-> EmptyDict],
     [exists |-> TRUE, valid |-> TRUE,
      data |-> (14 :> (0 :> Scalar("Z2_run")))]}

PlanInit ==
    /\ weekFile \in WeekFiles
    /\ lastEdit = NoEdit
    /\ edits = 0
    /\ TcxIdle
    /\ ConcIdle
    /\ LogIdle
    /\ FnIdle
    /\ SaverIdle

\* A run of the page that ends in the button "Save this week's order".
SaveWeekOrder ==
    /\ edits < MaxEdits
    /\ edits' = edits + 1
    /\ \E week_start \in Mondays, order \in Reorderings :
        LET week_rows == build_week_rows(week_start, weekFile)
            reordered_rows == ReorderedRows(week_rows, order)
            week_overrides == load_week_overrides(weekFile)
            mapping == [dow \in 0..6 |-> ListOf(reordered_rows[dow + 1])]
        IN  /\ weekFile' = save_week_overrides(
                               WithWeek(week_overrides, week_start, mapping))
            /\ lastEdit' = [kind |-> "save", week |-> week_start,
                            rows |-> reordered_rows,
                            before |-> week_overrides]
    /\ UNCHANGED nonPlanVars

\* A run of the page that ends in the button "Reset this week to default
\* plan".
ResetWeek ==
    /\ edits < MaxEdits
    /\ edits' = edits + 1
    /\ \E week_start \in Mondays :
        LET week_overrides == load_week_overrides(weekFile)
        IN  /\ IF week_start \in DOMAIN week_overrides
                   THEN weekFile' = save_week_overrides(
                                        WithoutWeek(week_overrides, week_start))
                   ELSE UNCHANGED weekFile
            /\ lastEdit' = [kind |-> "reset", week |-> week_start,
                            rows |-> <<>>, before |-> week_overrides]
    /\ UNCHANGED nonPlanVars

PlanNext == SaveWeekOrder \/ ResetWeek

SpecPlan == PlanInit /\ [][PlanNext]_vars

(***************************************************************************)
(* Calls of the functions that keep no state                               *)
(***************************************************************************)
\* Longest workout list handed to resolve_alt_saturday.
MaxIds == 3

\* A phase that starts on day start and has no end in sight.
PhaseFrom(start) ==
    [name |-> "P", start |-> start, end |-> start + 27,
     days |-> EmptyDict, weeks |-> EmptyDict]

\* The calls of resolve_alt_saturday: a date in the first four weeks of a
\* phase that starts on a Monday, a Wednesday or a Saturday, and a list of
\* workout ids.
AltCall(c) ==
    \E start \in {0, 2, 5} : \E offset \in 0..27 : \E n \in 0..MaxIds :
        \E workouts \in [1..n -> {"ALT_SATURDAY", "workout_A", "Z2_run"}] :
            c = [fn |-> "resolve_alt_saturday",
                 selected_date |-> start + offset,
                 workouts |-> workouts,
                 phase_data |-> PhaseFrom(start)]

(***************************************************************************)
(* render_cardio_block                                                     *)
(***************************************************************************)
\* A value of the Today page: a key that is missing, an int, the text of an
\* int, the text of a distance in hundredths of a mile, a text the user
\* typed (the empty text is Note(0)), and a local name not yet assigned.
NoKey == [k |-> "nokey", n |-> 0]
IntVal(n) == [k |-> "int", n |-> n]
IntText(n) == [k |-> "inttext", n |-> n]
MilesText(n) == [k |-> "miles", n |-> n]
Note(n) == [k |-> "text", n |-> n]
Blank == Note(0)
Unbound == [k |-> "unbound", n |-> 0]

\* int(x / d) for d > 0: the quotient cut towards zero.
IntTrunc(x, d) == IF x >= 0 THEN x \div d ELSE -((-x) \div d)

\* find_saved_cardio_for_wid found nothing.
NoSaved ==
    [present |-> FALSE, done |-> TRUE, duration_min |-> NoKey,
     distance |-> NoKey, avg_hr |-> NoKey, max_hr |-> NoKey, elev |-> NoKey,
     rpe |-> NoKey, notes |-> NoKey]

\* A saved session of the workout: one logged in full, one left not done,
\* and one without a numeric duration.
SavedCardio ==
    {NoSaved,
     [present |-> TRUE, done |-> TRUE, duration_min |-> IntVal(45),
      distance |-> MilesText(310), avg_hr |-> IntText(141),
      max_hr |-> IntText(160), elev |-> IntText(12), rpe |-> IntVal(7),
      notes |-> Note(1)],
     [present |-> TRUE, done |-> FALSE, duration_min |-> IntVal(20),
      distance |-> Blank, avg_hr |-> Blank, max_hr |-> Blank,
      elev |-> Blank, rpe |-> IntVal(0), notes |-> Blank],
     [present |-> TRUE, done |-> TRUE, duration_min |-> IntText(50),
      distance |-> NoKey, avg_hr |-> NoKey, max_hr |-> NoKey,
      elev |-> NoKey, rpe |-> NoKey, notes |-> NoKey]}

\* saved.get(key, ""): the value, or the empty text for a missing key.
GetOrBlank(v) == IF v = NoKey THEN Blank ELSE v

\* Section 1: the defaults before the upload is looked at.
BaselineDefaults(saved, default_min) ==
    [done |-> IF ~saved.present THEN TRUE ELSE saved.done,
     dur |-> IF saved.present /\ saved.duration_min.k = "int"
                 THEN saved.duration_min ELSE IntVal(default_min),
     dist |-> IF saved.present THEN GetOrBlank(saved.distance) ELSE Blank,
     rpe |-> IF saved.present /\ saved.rpe.k = "int" /\ saved.rpe.n # 0
                 THEN saved.rpe ELSE IntVal(6),
     hr |-> IF saved.present THEN GetOrBlank(saved.avg_hr) ELSE Blank,
     maxhr |-> IF saved.present THEN GetOrBlank(saved.max_hr) ELSE Blank,
     elev |-> IF saved.present THEN GetOrBlank(saved.elev) ELSE Blank,
     notes |-> IF saved.present THEN GetOrBlank(saved.notes) ELSE Blank]

\* st.session_state before the page ran for the first time.
EmptySession ==
    [done |-> NoKey, dur |-> NoKey, dist |-> NoKey, rpe |-> NoKey,
     hr |-> NoKey, maxhr |-> NoKey, elev |-> NoKey, notes |-> NoKey]

\* Section 3: every key of the block is set to its default.
SessionOf(d) ==
    [done |-> IF d.done THEN IntVal(1) ELSE IntVal(0), dur |-> d.dur,
     dist |-> d.dist, rpe |-> d.rpe, hr |-> d.hr, maxhr |-> d.maxhr,
     elev |-> d.elev, notes |-> d.notes]

\* The names the widgets of section 4 assign, as the function starts.
CardioLocals ==
    [duration |-> Unbound, distance |-> Unbound, avg_hr |-> Unbound,
     max_hr |-> Unbound, elevation |-> Unbound]

\* int(parsed["duration_sec"] / 60)
AutoDur(m) == IntTrunc(m.duration_sec, 6000)

\* round(parsed["distance_m"] / 1609.34, 2), in hundredths of a mile
AutoMiles(m) == RoundDiv(m.distance_m * 100, 160934)

\* str(int(x)) of a metric held in hundredths
AutoText(x) == IntText(IntTrunc(x, 100))

\* The state of a run of the block: the defaults, st.session_state, the
\* messages shown, tcx_info, and whether an exception has left the block.
CardioRun(defaults, session) ==
    [raised |-> FALSE, d |-> defaults, ss |-> session, shown |-> <<>>,
     tcx_info |-> None]

Show(run, msg) == [run EXCEPT !.shown = Append(@, msg)]

Raise(run) == [run EXCEPT !.raised = TRUE]

\* The first "if parsed:" branch: the session keys are filled in, a blank
\* duration and distance only, and pace and drift are displayed.  int()
\* of a NaN heart rate raises ValueError.
Autofill(run, parsed) ==
    LET m == parsed.m
        r0 == Show([run EXCEPT !.tcx_info = parsed], "TCX parsed")
        r1 == IF m.duration_sec # 0
                     /\ r0.ss.dur \in {NoKey, IntVal(0), Blank}
                  THEN [r0 EXCEPT !.ss.dur = IntVal(AutoDur(m))] ELSE r0
        r2 == IF m.distance_m > 0
                     /\ r1.ss.dist \in {NoKey, Blank, IntText(0)}
                  THEN [r1 EXCEPT !.ss.dist = MilesText(AutoMiles(m))]
                  ELSE r1
    IN  IF m.avg_hr = NaN THEN Raise(r2)
        ELSE LET r3 == IF m.avg_hr # 0
                           THEN [r2 EXCEPT !.ss.hr = AutoText(m.avg_hr)]
                           ELSE r2
             IN  IF m.max_hr = NaN THEN Raise(r3)
                 ELSE
                 LET r4 == IF m.max_hr # 0
                               THEN [r3 EXCEPT !.ss.maxhr = AutoText(m.max_hr)]
                               ELSE r3
                     r5 == IF m.elevation_gain_m # 0
                               THEN [r4 EXCEPT
                                         !.ss.elev =
                                             AutoText(m.elevation_gain_m)]
                               ELSE r4
                     r6 == IF m.pace_min_per_km # 0
                               THEN Show(r5, "Pace min/km") ELSE r5
                 IN  Show(r6, "HR Drift")

\* Mutant: a failed parse wipes the duration default.
ParseFailed_ResetDuration(run, msg) ==
    Show([run EXCEPT !.d.dur = IntVal(0)], msg)

\* The else branch of an "if parsed:" test: st.error(msg).
ParseFailed(run, msg) == Show(run, msg)

\* dict.setdefault on st.session_state
SetDefault(old, value) == IF old = NoKey THEN value ELSE old

\* The second "if parsed:" branch: the defaults start from the locals
\* duration, distance, avg_hr, max_hr and elevation, which are assigned
\* by the widgets further down: reading one before that raises
\* UnboundLocalError.
SafeAutofill(run, parsed, locals) ==
    LET m == parsed.m
        r0 == Show([run EXCEPT !.tcx_info = parsed], "TCX parsed")
    IN  IF Unbound \in {locals.duration, locals.distance, locals.avg_hr,
                        locals.max_hr, locals.elevation}
            THEN Raise(r0)
        ELSE IF NaN \in {m.avg_hr, m.max_hr} THEN Raise(r0)
        ELSE
        LET d == [r0.d EXCEPT
                     !.dur = IF m.duration_sec # 0
                                 THEN IntVal(AutoDur(m)) ELSE locals.duration,
                     !.dist = IF m.distance_m > 0
                                  THEN MilesText(AutoMiles(m))
                                  ELSE locals.distance,
                     !.hr = IF m.avg_hr # 0
                                THEN AutoText(m.avg_hr) ELSE locals.avg_hr,
                     !.maxhr = IF m.max_hr # 0
                                   THEN AutoText(m.max_hr) ELSE locals.max_hr,
                     !.elev = IF m.elevation_gain_m # 0
                                  THEN AutoText(m.elevation_gain_m)
                                  ELSE locals.elevation]
            r1 == IF m.duration_sec # 0 /\ m.distance_m > 0
                      THEN Show(r0, "Pace min/mi") ELSE r0
        IN  [r1 EXCEPT !.d = d,
                       !.ss.dur = SetDefault(@, d.dur),
                       !.ss.dist = SetDefault(@, d.dist),
                       !.ss.hr = SetDefault(@, d.hr),
                       !.ss.maxhr = SetDefault(@, d.maxhr),
                       !.ss.elev = SetDefault(@, d.elev)]

\* Section 2: what the block does with the outcome of
\* load_tcx_from_upload, when a file was uploaded.
UploadSection(run, parsed) ==
    IF parsed.kind = "raise" THEN Raise(run)
    ELSE LET r1 == IF Truthy(parsed)
                       THEN Autofill(run, parsed)
                       ELSE ParseFailed(run,
                                "Could not parse TCX (try again or upload a different file).")
         IN  IF r1.raised THEN r1
             ELSE IF Truthy(parsed)
                      THEN SafeAutofill(r1, parsed, CardioLocals)
                      ELSE ParseFailed(r1, "Could not parse TCX.")

\* No log entry.
NoEntry ==
    [duration_min |-> NoKey, distance |-> NoKey, avg_hr |-> NoKey,
     max_hr |-> NoKey, elev |-> NoKey, rpe |-> NoKey, notes |-> NoKey,
     tcx |-> None]

\* Sections 3 and 4: the session keys are set to the defaults, each
\* widget returns the value under its key, and the entry is built when
\* the session is marked done.
WidgetsAndEntry(run) ==
    LET ss == SessionOf(run.d)
    IN  [kind |-> IF ss.done = IntVal(1) THEN "entry" ELSE "none",
         entry |-> IF ss.done = IntVal(1)
                       THEN [duration_min |-> ss.dur, distance |-> ss.dist,
                             avg_hr |-> ss.hr, max_hr |-> ss.maxhr,
                             elev |-> ss.elev, rpe |-> ss.rpe,
                             notes |-> ss.notes, tcx |-> run.tcx_info]
                       ELSE NoEntry,
         shown |-> run.shown,
         session |-> ss]

\* render_cardio_block(origin, w_id, w) for the saved session, the
\* workout's suggested minutes, st.session_state and the uploaded file's
\* parse outcome (uploaded is FALSE when no file was chosen).
render_cardio_block(saved, default_min, session, uploaded, parsed) ==
    LET run0 == CardioRun(BaselineDefaults(saved, default_min), session)
        run1 == IF uploaded THEN UploadSection(run0, parsed) ELSE run0
    IN  IF run1.raised
            THEN [kind |-> "raise", entry |-> NoEntry, shown |-> run1.shown,
                  session |-> run1.ss]
            ELSE WidgetsAndEntry(run1)

\* The uploads handed to the Today page: none, documents that parse, with
\* and without distance and heart rate, and handles that do not.
CardioTraces ==
    {GoodTrace, ShortTrace, MixedTrace,
     <<Trackpoint(TimeText(0, "naive"), NumText(140), AbsentNum,
                  NumText(100000), NumText(0)),
       Trackpoint(TimeText(1800000, "naive"), NumText(150), AbsentNum,
                  NumText(110000), NumText(5000000))>>,
     HrTrace(<<NumText(140), NumText(NaN)>>)}

CardioUploads ==
    {NoUpload}
    \cup {TraceUpload(t) : t \in CardioTraces}
    \cup {Handle(Document(OpenNoNsTok, t), 0, TRUE, TRUE, TRUE) :
              t \in CardioTraces}
    \cup {Handle(InsertAt(Document(OpenTok, t), 1, x), 0, TRUE, TRUE, TRUE) :
              t \in CardioTraces, x \in {JunkTok, BadByteTok}}

\* The calls of render_cardio_block: on the first run of the page and on
\* a rerun, where st.session_state holds what the run before left.
CardioCall(c) ==
    \E saved \in SavedCardio : \E default_min \in {0, 30} :
        \E rerun \in BOOLEAN : \E u \in CardioUploads :
            c = [fn |-> "render_cardio_block", saved |-> saved,
                 default_min |-> default_min,
                 session |-> IF rerun
                                 THEN SessionOf(BaselineDefaults(
                                          saved, default_min))
                                 ELSE EmptySession,
                 upload |-> u]

\* The overrides a week_overrides.json can hold for one weekday: an empty
\* list, lists of one and two ids, a list that names ALT_SATURDAY, and
\* one id on its own.
OverrideValues ==
    {ListOf(<<>>), ListOf(<<"Z2_run">>), ListOf(<<"tempo_run", "workout_B">>),
     ListOf(<<"ALT_SATURDAY", "Z2_run">>), Scalar("workout_A")}

\* The calls of get_today_plan: a date before, inside and after the
\* phases, and a week_overrides.json that is missing, unreadable, or
\* holds an override for one weekday of one week.
PlanCall(c) ==
    \E selected_date \in 0..22 :
        \/ \E file \in WeekFiles :
              c = [fn |-> "get_today_plan", selected_date |-> selected_date,
                   file |-> file]
        \/ \E week \in {0, 7, 14, 21} : \E dow \in 0..6 :
              \E v \in OverrideValues :
                  c = [fn |-> "get_today_plan",
                       selected_date |-> selected_date,
                       file |-> save_week_overrides(week :> (dow :> v))]

(***************************************************************************)
(* hypertrophy.py                                                          *)
(***************************************************************************)
\* Most rows of a log handed to get_last_strength_entry.
MaxRows == 3

\* Largest base_sets handed to _suggest_sets.
MaxSets == 4

\* An item of a decoded strength_block: a dict with its exercise_id (the
\* weight tells two entries of one exercise apart), or something else.
Entry(id, w) == [dict |-> TRUE, exercise_id |-> id, weight |-> w]
NotADict == [dict |-> FALSE, exercise_id |-> "", weight |-> 0]

\* The strength_block cell of a row as read_csv gives it: NaN for an empty
\* field, a text ast.literal_eval rejects, the text of a dict, and the
\* text of a list.
NaCell == [k |-> "nan", entries |-> <<>>]
BadCell == [k |-> "bad", entries |-> <<>>]
DictCell == [k |-> "dict", entries |-> <<>>]
ListCell(entries) == [k |-> "list", entries |-> entries]

StrengthCells ==
    {NaCell, BadCell, DictCell,
     ListCell(<<Entry("bench", 1)>>),
     ListCell(<<Entry("squat", 1), Entry("bench", 2), Entry("bench", 3)>>),
     ListCell(<<NotADict, Entry("squat", 2)>>)}

\* The entries _iter_strength_entries yields for one row.
RowEntries(row) ==
    IF row.strength_block.k # "list" THEN <<>>
    ELSE LET dicts == SelectSeq(row.strength_block.entries,
                                LAMBDA e : e.dict)
         IN  [i \in 1..Len(dicts) |-> [date |-> row.date, e |-> dicts[i]]]

\* _iter_strength_entries(df): the (row_date, entry) pairs in row order.
RECURSIVE iter_strength_entries(_)
iter_strength_entries(df) ==
    IF df = <<>> THEN <<>>
    ELSE RowEntries(Head(df)) \o iter_strength_entries(Tail(df))

\* Mutant: the rows of current_date itself count as past.
PastRows_Inclusive(df, current_date) ==
    SelectSeq(df, LAMBDA row : row.date <= current_date)

\* df[df["date"] < current_date]
PastRows(df, current_date) ==
    SelectSeq(df, LAMBDA row : row.date < current_date)

\* sort_values("date", ascending=False): the rows by falling date; the
\* sort is not stable, rows of one date come in any order.
SortedByDateDesc(df) ==
    LET n == Len(df)
        orders == {p \in [1..n -> 1..n] :
                      /\ \A i, j \in 1..n : i # j => p[i] # p[j]
                      /\ \A i, j \in 1..n :
                            i < j => df[p[i]].date >= df[p[j]].date}
    IN  {[i \in 1..n |-> df[p[i]]] : p \in orders}

\* get_last_strength_entry returns None.
NoLast == [found |-> FALSE, e |-> NotADict, date |-> 0]

\* The loop of get_last_strength_entry: the first yielded entry of the
\* exercise, with the date of its row.
RECURSIVE FirstOfExercise(_, _, _)
FirstOfExercise(pairs, exercise_id, i) ==
    IF i > Len(pairs) THEN NoLast
    ELSE IF pairs[i].e.exercise_id = exercise_id
        THEN [found |-> TRUE, e |-> pairs[i].e, date |-> pairs[i].date]
    ELSE FirstOfExercise(pairs, exercise_id, i + 1)

\* What get_last_strength_entry(df, current_date, exercise_id) can return.
get_last_strength_entry(df, current_date, exercise_id) ==
    IF df = <<>> THEN {NoLast}
    ELSE LET df_past == PastRows(df, current_date)
         IN  IF df_past = <<>> THEN {NoLast}
             ELSE {FirstOfExercise(iter_strength_entries(sorted),
                                   exercise_id, 1) :
                      sorted \in SortedByDateDesc(df_past)}

\* The calls of get_last_strength_entry: a log of up to MaxRows rows of
\* two dates, in any order, and a current date on the first, on the
\* second and after both.
LastCall(c) ==
    \E n \in 0..MaxRows : \E dates \in [1..n -> 1..2] :
        \E cells \in [1..n -> StrengthCells] : \E current_date \in 1..3 :
            c = [fn |-> "get_last_strength_entry",
                 df |-> [i \in 1..n |->
                            [date |-> dates[i], strength_block |-> cells[i]]],
                 current_date |-> current_date,
                 exercise_id |-> "bench"]

\* fatigue_score or last_rpe is None
NoNumber == 0 - 1

\* max(a, b)
Max2(a, b) == IF a >= b THEN a ELSE b

_suggest_sets(base_sets, fatigue_score, last_rpe, primary) ==
    IF fatigue_score = NoNumber /\ last_rpe = NoNumber THEN base_sets
    ELSE IF \/ (fatigue_score # NoNumber /\ fatigue_score <= 2)
            \/ (last_rpe # NoNumber /\ last_rpe >= 9)
        THEN Max2(base_sets - 1, 1)
    ELSE IF /\ (fatigue_score # NoNumber /\ fatigue_score >= 4)
            /\ (last_rpe # NoNumber /\ last_rpe <= 6)
            /\ ~primary
        THEN base_sets + 1
    ELSE base_sets

\* The calls of _suggest_sets: the fatigue score of the day's check-in
\* (1 to 5) or none, the RPE of the last entry or none.
SetsCall(c) ==
    \E base_sets \in 0..MaxSets : \E fatigue_score \in {NoNumber} \cup 1..5 :
        \E last_rpe \in {NoNumber} \cup 5..10 : \E primary \in BOOLEAN :
            c = [fn |-> "_suggest_sets", base_sets |-> base_sets,
                 fatigue_score |-> fatigue_score, last_rpe |-> last_rpe,
                 primary |-> primary]

(***************************************************************************)
(* The lists of a day, written by the Today page and read back             *)
(***************************************************************************)
\* Most entries in a day's strength_block or cardio_sessions.
MaxEntries == 2

\* The values of an entry: an int, a str (one with an apostrophe in it
\* too) and None.
PyInt(n) == [t |-> "int", n |-> n, s |-> ""]
PyText(s) == [t |-> "str", n |-> 0, s |-> s]
PyNone == [t |-> "None", n |-> 0, s |-> ""]

\* An entry is a dict with str keys, held as its items in order.
Item(key, val) == [key |-> key, val |-> val]

\* The entries render_strength_block and render_cardio_block return.
StrengthEntries ==
    {<<Item("exercise_id", PyText("bench")), Item("sets", PyInt(3)),
       Item("reps", PyText("8-10"))>>,
     <<Item("exercise_id", PyText("squat")), Item("sets", PyInt(4)),
       Item("reps", PyText("5"))>>}

CardioEntries ==
    {<<Item("workout_id", PyText("Z2_run")), Item("duration_min", PyInt(30)),
       Item("notes", PyText("it's ok")), Item("tcx", PyNone)>>,
     <<Item("workout_id", PyText("tempo_run")),
       Item("duration_min", PyInt(45)), Item("notes", PyText("")),
       Item("tcx", PyNone)>>}

\* The text of a literal: an int, a str in single quotes (in double quotes
\* when it holds an apostrophe), and the name None.
HasApostrophe(s) == s = "it's ok"

ReprOf(v) ==
    IF v.t = "int" THEN [tok |-> "int", n |-> v.n, s |-> ""]
    ELSE IF v.t = "str"
        THEN [tok |-> IF HasApostrophe(v.s) THEN "dq" ELSE "sq",
              n |-> 0, s |-> v.s]
    ELSE [tok |-> "None", n |-> 0, s |-> ""]

\* str(entries): the text "[{'key': value, ...}, ...]", held as the
\* literal of each key and each value.
PyStr(entries) ==
    [i \in 1..Len(entries) |->
        [j \in 1..Len(entries[i]) |->
            [key |-> ReprOf(PyText(entries[i][j].key)),
             val |-> ReprOf(entries[i][j].val)]]]

\* The cell of the CSV column as read_csv gives it back: the text that
\* to_csv wrote.  "[]" and "[{...}]" are no NA texts.
CellOf(text) == [str |-> TRUE, text |-> text]

\* ast.literal_eval of one literal
EvalLiteral(tok) ==
    IF tok.tok = "int" THEN PyInt(tok.n)
    ELSE IF tok.tok \in {"sq", "dq"} THEN PyText(tok.s)
    ELSE PyNone

\* ast.literal_eval(text): any Python literal is accepted.
literal_eval(text) ==
    [raised |-> FALSE,
     data |-> [i \in 1..Len(text) |->
                  [j \in 1..Len(text[i]) |->
                      Item(EvalLiteral(text[i][j].key).s,
                           EvalLiteral(text[i][j].val))]]]

\* What a JSON document may hold: numbers and strings in double quotes
\* (and null, true, false), so neither 'key', 'text' nor None.
IsJson(tok) == tok.tok \in {"int", "dq"}

\* json.loads(text): JSONDecodeError on the first literal that is no JSON.
json_loads(text) ==
    IF \E i \in 1..Len(text) : \E j \in 1..Len(text[i]) :
           ~IsJson(text[i][j].key) \/ ~IsJson(text[i][j].val)
        THEN [raised |-> TRUE, data |-> <<>>]
        ELSE literal_eval(text)

\* parse_strength_block_from_log and parse_cardio_sessions_from_log of
\* app.py, the same code: [] for a cell that is no text or that
\* literal_eval rejects.
parse_block_from_log(cell) ==
    IF ~cell.str THEN <<>>
    ELSE LET parsed == literal_eval(cell.text)
         IN  IF parsed.raised THEN <<>> ELSE parsed.data

\* _iter_strength_entries of hypertrophy.py on the row: the dicts of the
\* decoded list, none for a cell it skips.
iter_row_entries(cell) ==
    IF ~cell.str THEN <<>>
    ELSE LET parsed == literal_eval(cell.text)
         IN  IF parsed.raised THEN <<>> ELSE parsed.data

\* The lambda of load_logs on the Analytics page: json.loads of a text
\* that starts with "[", which every str(list) does; its exception leaves
\* load_logs.
load_logs_column(cell) ==
    IF ~cell.str THEN [raised |-> FALSE, data |-> <<>>]
    ELSE json_loads(cell.text)

\* The Today page saves a day and the three readers load it.
RoundTripCall(c) ==
    \E n \in 0..MaxEntries : \E m \in 0..MaxEntries :
        \E strength \in [1..n -> StrengthEntries] :
            \E cardio \in [1..m -> CardioEntries] :
                c = [fn |-> "read_saved_day", strength_entries |-> strength,
                     cardio_entries |-> cardio]

\* A call of load_tcx_from_upload(u) from its first line to its return:
\* what it returns and the handle as it leaves it.
LoadRuns(u) ==
    IF ~u.present THEN {[out |-> None, after |-> u]}
    ELSE LET parsed == parse_tcx(u)
         IN  IF parsed.kind = "raise" \/ Truthy(parsed)
                 THEN {[out |-> parsed, after |-> v] : v \in AfterParse(u)}
                 ELSE {[out |-> TextPath(v), after |-> AfterTextPath(v)] :
                          v \in AfterParse(u)}

\* Two calls of load_tcx_from_upload in a row on one handle, which the
\* caller does not rewind in between.
TwiceCall(c) ==
    \E u \in HandleUploads \ {NoUpload} :
        c = [fn |-> "load_tcx_from_upload twice", upload |-> u]

FnCall(c) ==
    \/ AltCall(c)
    \/ CardioCall(c)
    \/ PlanCall(c)
    \/ LastCall(c)
    \/ SetsCall(c)
    \/ RoundTripCall(c)
    \/ TwiceCall(c)

FnInit ==
    /\ FnCall(call)
    /\ ret = NoCall
    /\ TcxIdle
    /\ ConcIdle
    /\ LogIdle
    /\ PlanIdle
    /\ SaverIdle

Returns(value) == [fn |-> call.fn, out |-> value]

ResolveAltSaturday ==
    /\ call.fn = "resolve_alt_saturday"
    /\ ret = NoCall
    /\ ret' = Returns(resolve_alt_saturday(call.selected_date, call.workouts,
                                           call.phase_data))
    /\ UNCHANGED <<call, nonFnVars>>

\* The Today page renders a cardio block: the uploader hands the file to
\* load_tcx_from_upload and the block goes on with its outcome.
RenderCardioBlock ==
    /\ call.fn = "render_cardio_block"
    /\ ret = NoCall
    /\ \E parsed \in LoadOutcomes(call.upload) :
           ret' = Returns(render_cardio_block(call.saved, call.default_min,
                                              call.session,
                                              call.upload.present, parsed))
    /\ UNCHANGED <<call, nonFnVars>>

GetTodayPlan ==
    /\ call.fn = "get_today_plan"
    /\ ret = NoCall
    /\ ret' = Returns(get_today_plan(call.selected_date, Phases, call.file))
    /\ UNCHANGED <<call, nonFnVars>>

GetLastStrengthEntry ==
    /\ call.fn = "get_last_strength_entry"
    /\ ret = NoCall
    /\ \E out \in get_last_strength_entry(call.df, call.current_date,
                                          call.exercise_id) :
           ret' = Returns(out)
    /\ UNCHANGED <<call, nonFnVars>>

SuggestSets ==
    /\ call.fn = "_suggest_sets"
    /\ ret = NoCall
    /\ ret' = Returns(_suggest_sets(call.base_sets, call.fatigue_score,
                                    call.last_rpe, call.primary))
    /\ UNCHANGED <<call, nonFnVars>>

\* log_data takes str() of the two lists, save_log_row writes the row, and
\* load_existing_day, _iter_strength_entries and load_logs read it.
ReadSavedDay ==
    /\ call.fn = "read_saved_day"
    /\ ret = NoCall
    /\ LET strength_block == CellOf(PyStr(call.strength_entries))
           cardio_sessions == CellOf(PyStr(call.cardio_entries))
           s == load_logs_column(strength_block)
           c == load_logs_column(cardio_sessions)
       IN  ret' = Returns(
               [load_existing_day |->
                    [strength_block |-> parse_block_from_log(strength_block),
                     cardio_sessions |-> parse_block_from_log(cardio_sessions)],
                iter_strength_entries |-> iter_row_entries(strength_block),
                load_logs |->
                    [raised |-> s.raised \/ c.raised,
                     strength_block |-> s.data,
                     cardio_sessions |-> c.data]])
    /\ UNCHANGED <<call, nonFnVars>>

LoadTwice ==
    /\ call.fn = "load_tcx_from_upload twice"
    /\ ret = NoCall
    /\ \E first \in LoadRuns(call.upload) :
           \E second \in LoadRuns(first.after) :
               ret' = Returns([first |-> first.out, between |-> first.after,
                               second |-> second.out])
    /\ UNCHANGED <<call, nonFnVars>>

FnNext ==
    \/ ResolveAltSaturday
    \/ RenderCardioBlock
    \/ GetTodayPlan
    \/ GetLastStrengthEntry
    \/ SuggestSets
    \/ ReadSavedDay
    \/ LoadTwice

SpecFn == FnInit /\ [][FnNext]_vars

(***************************************************************************)
(* Two calls of save_log_row at once                                       *)
(***************************************************************************)
\* The Save button of the Today page runs save_log_row in the thread of
\* its session; two sessions press it for different dates.  A call reads
\* the file in one step and rewrites it in two: to_csv opens the file,
\* which empties it, and then writes the rows.

\* Lines 32 to 38: the rows read, none for a file that is absent or that
\* read_csv rejects (zero bytes included).
ReadOld(file) ==
    IF file.exists /\ ~ReadCsvRaises(file) THEN ReadLog(file) ELSE <<>>

\* Lines 40 to 52: the old rows of other dates, then the new row.
Combine(df_old, df_new) ==
    IF df_old # <<>>
        THEN Append(SelectSeq(df_old, LAMBDA r : KeepRow(r, df_new.date)),
                    df_new)
        ELSE <<df_new>>

\* The row a call was given, its date normalised.
NewRowOf(frame) ==
    [date |-> DateValue(frame.day, "iso"), notes |-> frame.notes]

\* The log before the two calls: absent, or holding a row of the third
\* day, or one of the first call's day.
SaveInit ==
    /\ \E d1 \in {1, 2} : \E d2 \in {1, 2, 3} \ {d1} :
       \E n1 \in {Str("felt good"), Str("n/a")} :
       \E n2 \in {Str("easy"), NoValue} :
           saver = (1 :> [pc |-> "called", day |-> d1, notes |-> n1,
                          df_all |-> <<>>])
                   @@ (2 :> [pc |-> "called", day |-> d2, notes |-> n2,
                             df_all |-> <<>>])
    /\ \E old \in 0..3 :
           logFile = IF old = 0 THEN [exists |-> FALSE, rows |-> <<>>]
                     ELSE [exists |-> TRUE,
                           rows |-> <<[date |-> DateValue(old, "iso"),
                                       notes |-> "before"]>>]
    /\ lastSaved = [d \in LogDays |-> [saved |-> FALSE, notes |-> NoValue]]
    /\ saves = 0
    /\ TcxIdle
    /\ ConcIdle
    /\ PlanIdle
    /\ FnIdle

\* Lines 32 to 52 of call p: read_csv and the rows to write.
SaveRead(p) ==
    /\ saver[p].pc = "called"
    /\ saver' = [saver EXCEPT
                    ![p].pc = "read",
                    ![p].df_all = Combine(ReadOld(logFile),
                                          NewRowOf(saver[p]))]
    /\ UNCHANGED <<logVars, tcxVars, concVars, planVars, fnVars>>

\* Line 55 of call p, first half: to_csv opens the file for writing.
SaveTruncate(p) ==
    /\ saver[p].pc = "read"
    /\ saver' = [saver EXCEPT ![p].pc = "opened"]
    /\ logFile' = [exists |-> TRUE, rows |-> <<>>]
    /\ UNCHANGED <<lastSaved, saves, tcxVars, concVars, planVars, fnVars>>

\* Line 55 of call p, second half: the rows are written.
SaveWrite(p) ==
    /\ saver[p].pc = "opened"
    /\ saver' = [saver EXCEPT ![p].pc = "done"]
    /\ logFile' = WriteLog(saver[p].df_all)
    /\ UNCHANGED <<lastSaved, saves, tcxVars, concVars, planVars, fnVars>>

SaveNext ==
    \E p \in Procs : SaveRead(p) \/ SaveTruncate(p) \/ SaveWrite(p)

SpecSave == SaveInit /\ [][SaveNext]_vars

(***************************************************************************)
(* Properties                                                              *)
(***************************************************************************)
Done == pc = "done"

Returned(fs) == Done /\ entry \in fs

\* The trackpoints of the document handed in, in document order.
GivenTrace == TraceOf(given.content)

\* The trackpoints whose Time parses, in document order.
Timestamped(trace) == SelectSeq(trace, LAMBDA tp : tp.time.k = "time")

\* The trackpoints whose DistanceMeters parses, in document order.
WithDistance(trace) == SelectSeq(trace, LAMBDA tp : tp.dist.k = "num")

\* The handle holds a complete, namespaced document of bytes that is read
\* from its start.
CompleteDocument(u) ==
    /\ u.present /\ u.readable /\ u.pos = 0
    /\ WellFormed(u.content) /\ u.content[1].tok = "open"

\* C1: when fewer than two trackpoints of the document carry a Time that
\* parses, parse_tcx and parse_tcx_text return None, never a record.
C1_FewTimestampsNoResult ==
    (Returned({"parse_tcx", "parse_tcx_text"})
        /\ Len(Timestamped(GivenTrace)) < 2)
    => result.kind = "none"

\* C1 witness: parse_tcx has returned None for a complete document with one
\* timestamped trackpoint and a parseable distance on another trackpoint.
C1_Witness ==
    /\ Returned({"parse_tcx"})
    /\ CompleteDocument(given)
    /\ Len(Timestamped(GivenTrace)) = 1
    /\ \E i \in 1..Len(GivenTrace) :
           GivenTrace[i].time.k # "time" /\ GivenTrace[i].dist.k = "num"
    /\ result.kind = "none"

\* C2: every complete document with at least two trackpoints whose Time
\* parses, in whatever timestamp forms, yields a metrics record from
\* parse_tcx and parse_tcx_text.
C2_TwoTimestampsGiveRecord ==
    (Returned({"parse_tcx", "parse_tcx_text"})
        /\ CompleteDocument(given)
        /\ Len(Timestamped(GivenTrace)) >= 2)
    => result.kind = "metrics"

\* C3: no entry point ever hands an exception to its caller: a finished
\* call has returned None or a metrics record.
C3_NeverRaises ==
    /\ result.kind # "raise"
    /\ Done => result.kind \in {"none", "metrics"}

\* C3 witness: load_tcx_from_upload has returned None through its except
\* clause, for a handle whose seek() fails after a failed binary attempt.
C3_Witness ==
    /\ Returned({"load_tcx_from_upload"})
    /\ given.present /\ ~given.seekable
    /\ Len(attempts) = 2
    /\ TextPathBody(given).kind = "raise"
    /\ result.kind = "none"

\* The first attempt load_tcx_from_upload made was the binary parse of the
\* handle as handed in, and it gave no result.
BinaryFailed ==
    /\ Len(attempts) >= 1
    /\ attempts[1].path = "binary"
    /\ attempts[1].out.kind = "none"

\* C4: on an upload that is present, load_tcx_from_upload makes the binary
\* attempt first; the text attempt is made only after the binary attempt gave
\* no result; a binary result is returned as it is with no text attempt; and
\* None is returned only when both attempts gave no result.
C4_BinaryFirstTextOnlyAfterFailure ==
    entry = "load_tcx_from_upload" =>
        /\ Len(attempts) <= 2
        /\ Len(attempts) >= 1 =>
               /\ attempts[1].path = "binary"
               /\ attempts[1].out = parse_tcx(given)
        /\ Len(attempts) = 2 =>
               /\ attempts[2].path = "text"
               /\ attempts[1].out.kind = "none"
        /\ (Done /\ given.present) => Len(attempts) >= 1
        /\ (Done /\ Len(attempts) >= 1 /\ attempts[1].out.kind = "metrics") =>
               /\ result = attempts[1].out
               /\ Len(attempts) = 1
        /\ (Done /\ given.present /\ result.kind = "none") =>
               /\ Len(attempts) = 2
               /\ attempts[1].out.kind = "none"
               /\ attempts[2].out.kind = "none"

\* C4 witness: the binary attempt gave no result and the text attempt that
\* followed it produced the record that was returned.
C4_Witness ==
    /\ Returned({"load_tcx_from_upload"})
    /\ BinaryFailed
    /\ Len(attempts) = 2
    /\ attempts[2].out.kind = "metrics"
    /\ result = attempts[2].out

\* The content of the upload can be read back in full and decoded: seek()
\* and read() work and read() returns bytes.
CanReadBack(u) == u.present /\ u.seekable /\ u.readable /\ u.bytes

\* C5: when the binary attempt fails on an upload whose full content,
\* read back and decoded as UTF-8 with errors ignored, parses as text,
\* load_tcx_from_upload returns what parse_tcx_text returns on that text,
\* wherever the failed binary attempt left the read position.
C5_FallbackEqualsTextParse ==
    (Returned({"load_tcx_from_upload"})
        /\ BinaryFailed
        /\ CanReadBack(given)
        /\ parse_tcx_text(Decode(given.content)).kind = "metrics")
    => result = parse_tcx_text(Decode(given.content))

\* C5 witness: an invalid byte made the binary attempt fail part of the way
\* through the stream, and the call returned the record of the decoded text.
C5_Witness ==
    /\ Returned({"load_tcx_from_upload"})
    /\ BinaryFailed
    /\ CanReadBack(given)
    /\ HasBadByte(given.content)
    /\ given.pos = 0
    /\ result.kind = "metrics"
    /\ result = parse_tcx_text(Decode(given.content))

\* The timestamps of the trackpoints whose Time parses, in milliseconds.
FirstParsedMs(trace) == Timestamped(trace)[1].time.ms
LastParsedMs(trace) ==
    Timestamped(trace)[Len(Timestamped(trace))].time.ms

\* r (hundredths) is x (thousandths) rounded to 2 places.
IsRounded2(r, x) == 10 * r - x \in -5..5

\* C6: duration_sec is the difference between the last and the first
\* timestamp that parsed, in document order (reported to 2 places):
\* trackpoints without a parsed Time are skipped, nothing is sorted.
C6_DurationLastMinusFirstParsed ==
    (Done /\ result.kind = "metrics")
    => IsRounded2(result.m.duration_sec,
                  LastParsedMs(GivenTrace) - FirstParsedMs(GivenTrace))

\* C6 witness: the first trackpoint has no parsed Time and the remaining
\* timestamps run backwards; the record reports -60.00 s.
C6_Witness ==
    /\ Done /\ result.kind = "metrics"
    /\ Len(GivenTrace) = 3
    /\ GivenTrace[1].time.k # "time"
    /\ GivenTrace[2].time.ms = 60000
    /\ GivenTrace[3].time.ms = 0
    /\ result.m.duration_sec = -6000

\* C7: duration_sec of every returned record is non-negative.
C7_DurationNonNegative ==
    (Done /\ result.kind = "metrics") => result.m.duration_sec >= 0

\* The last DistanceMeters value that parsed, in millimetres; 0 without one.
LastParsedDistance(trace) ==
    IF WithDistance(trace) = <<>> THEN 0
    ELSE WithDistance(trace)[Len(WithDistance(trace))].dist.v

\* C8: distance_m is the last DistanceMeters value that parsed, in document
\* order (reported to 2 places), and 0 when none parsed.
C8_DistanceIsLastParsed ==
    (Done /\ result.kind = "metrics")
    => IF WithDistance(GivenTrace) = <<>>
           THEN result.m.distance_m = 0
           ELSE IsRounded2(result.m.distance_m, LastParsedDistance(GivenTrace))

\* C8 witness: distances 1000 m then 500 m, followed by a trackpoint whose
\* distance does not parse: the record reports 500.00 m, neither the
\* maximum nor the sum.
C8_Witness ==
    /\ Done /\ result.kind = "metrics"
    /\ Len(GivenTrace) = 3
    /\ GivenTrace[1].dist = NumText(1000000)
    /\ GivenTrace[2].dist = NumText(500000)
    /\ GivenTrace[3].dist.k = "bad"
    /\ result.m.distance_m = 50000

\* C9 as stated: pace is (duration_sec / 60) / (distance_m / 1000) of the
\* reported duration_sec and distance_m when the reported distance_m is
\* greater than 0, and 0 otherwise.
C9_PaceFromReportedFields ==
    (Done /\ result.kind = "metrics")
    => IF result.m.distance_m > 0
           THEN result.m.pace_min_per_km =
                    PaceQuotient(result.m.duration_sec * 10,
                                 result.m.distance_m * 10)
           ELSE result.m.pace_min_per_km = 0

\* C9 amended: pace is (duration / 60) / (distance / 1000), to 3 places, of
\* the unrounded duration and the unrounded last parsed distance when that
\* distance is greater than 0, and 0 otherwise; without a parsed distance
\* the pace is 0.
C9_PaceFromUnroundedValues ==
    (Done /\ result.kind = "metrics")
    => LET d == LastParsedMs(GivenTrace) - FirstParsedMs(GivenTrace)
           D == LastParsedDistance(GivenTrace)
       IN  /\ D > 0 => result.m.pace_min_per_km = PaceQuotient(d, D)
           /\ D <= 0 => result.m.pace_min_per_km = 0
           /\ WithDistance(GivenTrace) = <<>> => result.m.pace_min_per_km = 0

\* C9 witness: 60 s over a last distance of 0.004 m: distance_m is reported
\* as 0.00 and the pace as 250000.000 min/km.
C9_Witness ==
    /\ Done /\ result.kind = "metrics"
    /\ LastParsedDistance(GivenTrace) = 4
    /\ result.m.duration_sec = 6000
    /\ result.m.distance_m = 0
    /\ result.m.pace_min_per_km = 250000000

\* C10: pace_min_per_km of every returned record is non-negative.
C10_PaceNonNegative ==
    (Done /\ result.kind = "metrics") => result.m.pace_min_per_km >= 0

\* The altitude samples that parsed, in document order (millimetres).
ParsedAltitudes(trace) ==
    LET tps == SelectSeq(trace, LAMBDA tp : tp.alt.k = "num")
    IN  [i \in 1..Len(tps) |-> tps[i].alt.v]

\* The heart-rate samples that parsed, in document order.
ParsedHrs(trace) ==
    LET tps == SelectSeq(trace, LAMBDA tp : tp.hr.k = "num")
    IN  [i \in 1..Len(tps) |-> tps[i].hr.v]

\* The climbs of a sample sequence: max(0, a[i] - a[i-1]) for each i.
Climbs(a) ==
    [i \in 1..(Len(a) - 1) |-> IF a[i + 1] > a[i] THEN a[i + 1] - a[i] ELSE 0]

\* C11: elevation_gain_m is the sum of max(0, a[i] - a[i-1]) over the
\* altitude samples that parsed, in document order (trackpoints without a
\* parseable altitude are skipped; reported to 2 places); it is never
\* negative and is 0 with fewer than two samples.
C11_ElevationGainSumsClimbs ==
    (Done /\ result.kind = "metrics")
    => LET a == ParsedAltitudes(GivenTrace)
       IN  /\ result.m.elevation_gain_m >= 0
           /\ IF Len(a) < 2
                  THEN result.m.elevation_gain_m = 0
                  ELSE IsRounded2(result.m.elevation_gain_m,
                                  SumSeq(Climbs(a)))

\* C11 witness: the altitudes 100, 105, 102, 110 m give a gain of 13 m.
C11_Witness ==
    /\ Done /\ result.kind = "metrics"
    /\ ParsedAltitudes(GivenTrace) = <<100000, 105000, 102000, 110000>>
    /\ result.m.elevation_gain_m = 1300

\* The mean of the first and of the second half of the samples, as
\* fractions sum / count, the split being at floor(n / 2).
FirstHalf(hrs) == SubSeq(hrs, 1, Len(hrs) \div 2)
SecondHalf(hrs) == SubSeq(hrs, Len(hrs) \div 2 + 1, Len(hrs))

\* r (ten-thousandths) is the fraction num / den (den > 0) rounded to 4
\* places.
IsRounded4(r, num, den) ==
    LET e == r * den - num * 10000
    IN  2 * e <= den /\ 2 * e >= 0 - den

\* C12: hr_drift splits the heart-rate samples that parsed at floor(n / 2)
\* and is (second half mean - first half mean) / first half mean (reported
\* to 4 places) when the first half mean is positive; it is 0 with no
\* sample, with a single sample, and when the first half mean is not
\* positive (a NaN mean is not positive, and a quotient over a NaN second
\* half mean is NaN).
C12_HrDriftSplitsAtHalf ==
    (Done /\ result.kind = "metrics")
    => LET hrs == ParsedHrs(GivenTrace)
           s1 == SumSeq(FirstHalf(hrs))
           n1 == Len(FirstHalf(hrs))
           s2 == SumSeq(SecondHalf(hrs))
           n2 == Len(SecondHalf(hrs))
       IN  IF Len(hrs) < 2 \/ HasNaN(FirstHalf(hrs)) \/ s1 <= 0
               THEN result.m.hr_drift = 0
           ELSE IF HasNaN(SecondHalf(hrs))
               THEN result.m.hr_drift = NaN
               \* (s2/n2 - s1/n1) / (s1/n1) = (s2*n1 - s1*n2) / (s1*n2)
               ELSE IsRounded4(result.m.hr_drift, s2 * n1 - s1 * n2, s1 * n2)

\* C12 witness: the samples 140, 150, 160, 170 give (165 - 145) / 145.
C12_Witness ==
    /\ Done /\ result.kind = "metrics"
    /\ ParsedHrs(GivenTrace) = <<140, 150, 160, 170>>
    /\ result.m.hr_drift = 1379

\* m is the largest sample of xs.
IsMaxOf(m, xs) ==
    /\ \E i \in 1..Len(xs) : xs[i] = m
    /\ \A i \in 1..Len(xs) : xs[i] <= m

\* The trace with the heart-rate fields of trackpoints i and j exchanged.
SwapHr(trace, i, j) ==
    [k \in 1..Len(trace) |->
        IF k = i THEN [trace[i] EXCEPT !.hr = trace[j].hr]
        ELSE IF k = j THEN [trace[j] EXCEPT !.hr = trace[i].hr]
        ELSE trace[k]]

\* The mean and the maximum reported are those of the samples hrs.
MeanAndMaxOf(m, hrs) ==
    LET e == 100 * SumSeq(hrs) - m.avg_hr * Len(hrs)
    IN  IF hrs = <<>>
            THEN m.avg_hr = 0 /\ m.max_hr = 0
            ELSE /\ 2 * e <= Len(hrs) /\ 2 * e >= 0 - Len(hrs)
                 /\ \E x \in 0..255 : IsMaxOf(x, hrs) /\ m.max_hr = 100 * x

\* Exchanging the heart-rate fields of any two trackpoints leaves avg_hr
\* and max_hr as they are.
HrOrderFree ==
    \A i, j \in 1..Len(GivenTrace) :
        LET other == parse_tcx_tree(SwapHr(GivenTrace, i, j))
        IN  /\ other.kind = "metrics"
            /\ other.m.avg_hr = result.m.avg_hr
            /\ other.m.max_hr = result.m.max_hr

\* C13: avg_hr and max_hr are the mean and the maximum of the heart-rate
\* samples that parsed (reported to 2 places), 0 when none parsed, and
\* exchanging the heart-rate fields of any two trackpoints (every
\* permutation is a product of such exchanges) leaves both unchanged.
C13_AvgMaxHrOrderFree ==
    (Done /\ result.kind = "metrics")
    => /\ ~HasNaN(ParsedHrs(GivenTrace))
              => MeanAndMaxOf(result.m, ParsedHrs(GivenTrace))
       /\ HrOrderFree

\* C13, on traces none of whose heart-rate samples is NaN: the mean and the
\* maximum are reported and no exchange changes them.
C13_OrderFreeWithoutNaN ==
    (Done /\ result.kind = "metrics" /\ ~HasNaN(ParsedHrs(GivenTrace)))
    => MeanAndMaxOf(result.m, ParsedHrs(GivenTrace)) /\ HrOrderFree

\* The trackpoint carries no field but, possibly, its Time.
TimeOnly(tp) ==
    /\ tp.hr.k = "absent" /\ tp.cad.k = "absent"
    /\ tp.alt.k = "absent" /\ tp.dist.k = "absent"

\* C14: a trace whose trackpoints carry only timestamps yields a record
\* with duration_sec the span between the first and the last timestamp that
\* parsed and every other field 0.
C14_TimestampsOnly ==
    (Done /\ result.kind = "metrics"
        /\ \A i \in 1..Len(GivenTrace) : TimeOnly(GivenTrace[i]))
    => /\ IsRounded2(result.m.duration_sec,
                     LastParsedMs(GivenTrace) - FirstParsedMs(GivenTrace))
       /\ [result.m EXCEPT !.duration_sec = 0] = ZeroMetrics

\* C14 witness: two trackpoints 60 s apart and nothing else give 60.0 s.
C14_Witness ==
    /\ Done /\ result.kind = "metrics"
    /\ Len(GivenTrace) = 2
    /\ \A i \in 1..2 : TimeOnly(GivenTrace[i])
    /\ result.m = [ZeroMetrics EXCEPT !.duration_sec = 6000]

\* What the entry point e can return on the handle u.
OutcomesOf(e, u) ==
    IF e = "parse_tcx" THEN {parse_tcx(u)}
    ELSE IF e = "parse_tcx_text" THEN {parse_tcx_text(Decode(u.content))}
    ELSE LoadOutcomes(u)

Fields == {"time", "hr", "cad", "alt", "dist"}

\* The handle whose document lacks field f of the trackpoint at token n.
WithoutField(u, n, f) ==
    [u EXCEPT !.content[n].tp[f] =
        IF f = "time" THEN AbsentTime ELSE AbsentNum]

\* The fields of the document that are present and do not parse.
BadFields(u) ==
    {nf \in (1..Len(u.content)) \X Fields :
        /\ u.content[nf[1]].tok = "tp"
        /\ u.content[nf[1]].tp[nf[2]].k = "bad"}

\* C15: a field that is present but does not parse is treated as absent,
\* for its trackpoint and that field only: the call returns what it returns
\* on the same document with that single field removed.
C15_BadFieldIsAbsentField ==
    Done => \A nf \in BadFields(given) :
                result \in OutcomesOf(entry, WithoutField(given, nf[1], nf[2]))

\* C15 witness: a trackpoint whose heart rate does not parse still gives
\* its altitude, and the heart rate of the other trackpoint is reported.
C15_Witness ==
    /\ Done /\ result.kind = "metrics"
    /\ \E nf \in BadFields(given) :
           /\ nf[2] = "hr"
           /\ given.content[nf[1]].tp.alt.k = "num"
    /\ result.m.elevation_gain_m > 0
    /\ result.m.avg_hr > 0

\* C17: calls running at once on handles of their own do not interfere:
\* however their steps interleave, each call returns what
\* load_tcx_from_upload returns on its handle when it runs alone.
C17_ConcurrentCallsAsAlone ==
    \A p \in Procs :
        cPc[p] = "done" => cResult[p] \in LoadOutcomes(cGiven[p])

\* C17 witness: two calls whose steps interleaved have both returned, one
\* a record and one None.
C17_Witness ==
    /\ overlapped
    /\ \A p \in Procs : cPc[p] = "done"
    /\ \E p, q \in Procs :
           cResult[p].kind = "metrics" /\ cResult[q].kind = "none"

\* The rows of the log for a day, as read_csv reads them.
RowsOf(day) ==
    SelectSeq(ReadLog(logFile), LAMBDA r : r.date.day = day)

\* C18: after any sequence of save_log_row calls on a log that was empty or
\* absent, the log holds at most one row for each date, a row for exactly
\* the dates saved, and the row of a date reads as the row most recently
\* saved for that date reads once written.
C18_OneRowPerDateLastSaved ==
    \A day \in LogDays :
        /\ Len(RowsOf(day)) <= 1
        /\ (Len(RowsOf(day)) = 1) = lastSaved[day].saved
        /\ lastSaved[day].saved
               => RowsOf(day)[1].notes = FromCsv(ToCsv(lastSaved[day].notes))

\* C18 witness: a date was saved, another date after it, then the first
\* date again with other notes: two rows, the first date's row last.
C18_Witness ==
    /\ saves = 3
    /\ Len(logFile.rows) = 2
    /\ logFile.rows[2].date.day = 1
    /\ logFile.rows[2].notes = "felt good"
    /\ logFile.rows[1].notes = ""
    /\ lastSaved[2].notes = Str("n/a")

\* What the Today page shows for a date: the ids of get_today_plan.
TodayIds(d) == IdsOf(get_today_plan(d, Phases, weekFile))

\* C19: after "Save this week's order" for the week of a Monday with a
\* chosen order, get_today_plan returns for each of the seven dates of the
\* week, as primary followed by secondaries, the workout ids of the row
\* placed in that date's slot.
C19_SavedOrderShownToday ==
    lastEdit.kind = "save"
    => \A d \in 0..6 : TodayIds(lastEdit.week + d) = lastEdit.rows[d + 1]

\* C19, for the dates of the week that lie in a phase.
C19_SavedOrderShownInPhase ==
    lastEdit.kind = "save"
    => \A d \in 0..6 :
           find_active_phase(lastEdit.week + d, Phases) # NoPhase
               => TodayIds(lastEdit.week + d) = lastEdit.rows[d + 1]

\* The plan of a date without the overrides file.
BasePlan(d) ==
    LET phase_data == find_active_phase(d, Phases)
    IN  IF phase_data = NoPhase THEN Plan("Off-plan", NoId, <<>>)
        ELSE PlanFrom(phase_data.name, BaseLayers(d, phase_data))

\* C20: after "Reset this week to default plan" for the week of a Monday,
\* get_today_plan returns for each of the seven dates of the week the base
\* plan (the days mapping, the phase's weeks, ALT_SATURDAY) with no
\* override of the file applied, and the overrides of every other week
\* load as they did before.
C20_ResetGivesBasePlan ==
    lastEdit.kind = "reset"
    => /\ \A d \in 0..6 :
              get_today_plan(lastEdit.week + d, Phases, weekFile)
                  = BasePlan(lastEdit.week + d)
       /\ LET now == load_week_overrides(weekFile)
          IN  /\ (DOMAIN now) \ {lastEdit.week}
                     = (DOMAIN lastEdit.before) \ {lastEdit.week}
              /\ \A w \in (DOMAIN now) \ {lastEdit.week} :
                     now[w] = lastEdit.before[w]

\* C20 witness: a week whose saved order had changed its plan was reset
\* while another week kept its override.
C20_Witness ==
    /\ lastEdit.kind = "reset"
    /\ lastEdit.week \in DOMAIN lastEdit.before
    /\ \E d \in 0..6 :
           AsList(lastEdit.before[lastEdit.week][d])
               # IdsOf(BasePlan(lastEdit.week + d))
    /\ \E w \in DOMAIN load_week_overrides(weekFile) : w # lastEdit.week

\* Function fn has been called and has returned.
Returned_(fn) == call.fn = fn /\ ret # NoCall

\* The date lies in week k of the phase, the weeks of seven days being
\* counted from 1 at the phase start.
InWeek(d, start, k) == start + 7 * (k - 1) <= d /\ d < start + 7 * k

IsSaturday(d) == \E n \in 0..10 : d = 7 * n + 5

\* C21: resolve_alt_saturday replaces every 'ALT_SATURDAY' by 'workout_A'
\* in the odd weeks of the phase and by 'workout_B' in the even weeks, on a
\* Saturday only; every other entry and the order are kept; the same list
\* resolved for the Saturday a week later gives the other workout.
C21_AltSaturdayAlternates ==
    Returned_("resolve_alt_saturday")
    => LET d == call.selected_date
           w == call.workouts
           start == call.phase_data.start
           later == resolve_alt_saturday(d + 7, w, call.phase_data)
       IN  /\ Len(ret.out) = Len(w)
           /\ \A i \in 1..Len(w) :
                  IF w[i] = "ALT_SATURDAY" /\ IsSaturday(d)
                      THEN /\ \A k \in {1, 3, 5} : InWeek(d, start, k)
                                  => ret.out[i] = "workout_A"
                           /\ \A k \in {2, 4, 6} : InWeek(d, start, k)
                                  => ret.out[i] = "workout_B"
                           /\ ret.out[i] \in {"workout_A", "workout_B"}
                           /\ later[i] \in {"workout_A", "workout_B"}
                           /\ later[i] # ret.out[i]
                      ELSE ret.out[i] = w[i]

\* C21 witness: on the Saturday of week 2 of a phase that began on a
\* Wednesday, the list Z2_run, ALT_SATURDAY becomes Z2_run, workout_B.
C21_Witness ==
    /\ Returned_("resolve_alt_saturday")
    /\ call.phase_data.start = 2
    /\ call.selected_date = 12
    /\ call.workouts = <<"Z2_run", "ALT_SATURDAY">>
    /\ ret.out = <<"Z2_run", "workout_B">>

\* The outcome of load_tcx_from_upload on the file handed to the block.
ParsedUpload ==
    CHOOSE parsed \in LoadOutcomes(call.upload) : TRUE

CardioReturned ==
    /\ Returned_("render_cardio_block")
    /\ call.upload.present
    /\ LoadOutcomes(call.upload) = {ParsedUpload}

CardioDefaults == BaselineDefaults(call.saved, call.default_min)

\* C22: when the uploaded TCX parses, render_cardio_block goes on to render
\* its widgets and, the session being marked done, returns a log entry
\* whose 'tcx' field is the metrics record and whose duration, distance,
\* average HR, maximum HR and elevation are the ones of the metrics
\* (duration = int(duration_sec / 60)).
C22_ParsedUploadFillsEntry ==
    CardioReturned /\ Truthy(ParsedUpload) /\ CardioDefaults.done =>
        LET m == ParsedUpload.m
            e == ret.out.entry
        IN  /\ ret.out.kind = "entry"
            /\ e.tcx = ParsedUpload
            /\ m.duration_sec # 0 => e.duration_min = IntVal(AutoDur(m))
            /\ m.distance_m > 0 => e.distance = MilesText(AutoMiles(m))
            /\ m.avg_hr # 0 => e.avg_hr = AutoText(m.avg_hr)
            /\ m.max_hr # 0 => e.max_hr = AutoText(m.max_hr)
            /\ m.elevation_gain_m # 0 => e.elev = AutoText(m.elevation_gain_m)

\* C22, what the code does instead: a parsed upload never gets as far as
\* the widgets, the block is left by an exception.
C22_ParsedUploadRaises ==
    CardioReturned /\ Truthy(ParsedUpload) => ret.out.kind = "raise"

C22_RaisesWitness ==
    /\ CardioReturned
    /\ Truthy(ParsedUpload)
    /\ ParsedUpload.m.duration_sec = 180000
    /\ ret.out.kind = "raise"
    /\ ret.out.session.dur = IntVal(30)

\* C23: when load_tcx_from_upload returns None for an uploaded file, the
\* block shows a 'Could not parse' error, every field keeps the value it
\* has with no upload (the saved entry's value or the base default), and
\* the returned entry's 'tcx' field is None.
C23_FailedParseKeepsDefaults ==
    CardioReturned /\ ParsedUpload = None =>
        LET plain == render_cardio_block(call.saved, call.default_min,
                                         call.session, FALSE, None)
            saved == call.saved
        IN  /\ \E i \in 1..Len(ret.out.shown) :
                  ret.out.shown[i] = "Could not parse TCX."
            /\ ret.out.kind = plain.kind
            /\ ret.out.entry = plain.entry
            /\ ret.out.session = plain.session
            /\ ret.out.kind # "raise"
            /\ ret.out.kind = "entry" =>
                  /\ ret.out.entry.tcx = None
                  /\ ret.out.entry.duration_min =
                         IF saved.present /\ saved.duration_min.k = "int"
                             THEN saved.duration_min
                             ELSE IntVal(call.default_min)
                  /\ ret.out.entry.distance =
                         IF saved.present /\ saved.distance # NoKey
                             THEN saved.distance ELSE Blank
                  /\ ret.out.entry.avg_hr =
                         IF saved.present /\ saved.avg_hr # NoKey
                             THEN saved.avg_hr ELSE Blank
                  /\ ret.out.entry.max_hr =
                         IF saved.present /\ saved.max_hr # NoKey
                             THEN saved.max_hr ELSE Blank
                  /\ ret.out.entry.elev =
                         IF saved.present /\ saved.elev # NoKey
                             THEN saved.elev ELSE Blank

C23_Witness ==
    /\ CardioReturned
    /\ ParsedUpload = None
    /\ call.upload.content # <<>>
    /\ call.saved.present
    /\ ret.out.kind = "entry"
    /\ ret.out.entry.duration_min = IntVal(45)
    /\ ret.out.entry.tcx = None
    /\ Len(ret.out.shown) = 2

\* The date lies between the start and the end of some phase.
InsidePhase(d) ==
    \E i \in 1..Len(Phases) : Phases[i].start <= d /\ d <= Phases[i].end

\* The override the file holds for the date's week (keyed by its Monday)
\* and weekday, if it holds one.
HasOverride(file, d) ==
    /\ file.exists
    /\ file.valid
    /\ (d - (d % 7)) \in DOMAIN file.data
    /\ (d % 7) \in DOMAIN file.data[d - (d % 7)]

OverrideOf(file, d) ==
    LET v == file.data[d - (d % 7)][d % 7]
    IN  IF v.list THEN v.ids ELSE <<v.ids[1]>>

\* The list the phase itself gives for the date: the entry of its 'weeks'
\* for the date's week and weekday if there is one, else the entry of its
\* 'days', else nothing; on a Saturday ALT_SATURDAY stands for workout_A
\* in odd weeks and workout_B in even ones.
StaticOf(phase, d) ==
    LET wk == ((d - phase.start) \div 7) + 1
        raw == IF wk \in DOMAIN phase.weeks
                      /\ (d % 7) \in DOMAIN phase.weeks[wk]
                   THEN AsList(phase.weeks[wk][d % 7])
               ELSE IF (d % 7) \in DOMAIN phase.days
                   THEN AsList(phase.days[d % 7])
               ELSE <<>>
    IN  [i \in 1..Len(raw) |->
            IF raw[i] = "ALT_SATURDAY" /\ d % 7 = 5
                THEN (IF wk % 2 = 1 THEN "workout_A" ELSE "workout_B")
                ELSE raw[i]]

\* C24: get_today_plan applies its layers in the order days, phase weeks,
\* ALT_SATURDAY, dynamic weekly override, each later layer replacing the
\* whole list: for a date inside a phase with a dynamic override for its
\* week and weekday the result is exactly that list (primary the first
\* id, secondaries the rest, no primary and no secondaries when it is
\* empty), without one it is the phase's own list, and for a date inside
\* no phase it is ('Off-plan', None, []).
C24_LayersInOrder ==
    Returned_("get_today_plan") =>
        LET d == call.selected_date
            phase == find_active_phase(d, Phases)
            final == IF HasOverride(call.file, d)
                         THEN OverrideOf(call.file, d)
                         ELSE StaticOf(phase, d)
        IN  /\ ~InsidePhase(d) => ret.out = Plan("Off-plan", NoId, <<>>)
            /\ InsidePhase(d) =>
                  /\ ret.out.phase = phase.name
                  /\ final = <<>> =>
                        ret.out.primary = NoId /\ ret.out.secondary = <<>>
                  /\ final # <<>> =>
                        /\ ret.out.primary = final[1]
                        /\ ret.out.secondary = Tail(final)

C24_Witness ==
    /\ Returned_("get_today_plan")
    /\ call.selected_date = 7
    /\ HasOverride(call.file, 7)
    /\ OverrideOf(call.file, 7) = <<"tempo_run", "workout_B">>
    /\ ret.out = Plan("1A", "tempo_run", <<"workout_B">>)

\* The rows of the log dated before the current date whose strength_block
\* decodes to a list that holds an entry of the exercise.
EarlierRowsWith(df, current_date, exercise_id) ==
    {i \in 1..Len(df) :
        /\ df[i].date < current_date
        /\ df[i].strength_block.k = "list"
        /\ \E j \in 1..Len(df[i].strength_block.entries) :
              /\ df[i].strength_block.entries[j].dict
              /\ df[i].strength_block.entries[j].exercise_id = exercise_id}

\* C25: get_last_strength_entry returns an entry of the exercise taken
\* from the row with the greatest date strictly earlier than current_date
\* among the rows that contain the exercise, tagged with that row's date,
\* and returns None exactly when no earlier row contains the exercise.
C25_LastEntryBeforeDate ==
    Returned_("get_last_strength_entry") =>
        LET df == call.df
            rows == EarlierRowsWith(df, call.current_date, call.exercise_id)
        IN  /\ (ret.out = NoLast) <=> (rows = {})
            /\ rows # {} =>
                  /\ ret.out.found
                  /\ ret.out.e.exercise_id = call.exercise_id
                  /\ ret.out.date < call.current_date
                  /\ \A k \in rows : df[k].date <= ret.out.date
                  /\ \E i \in rows :
                        /\ df[i].date = ret.out.date
                        /\ \E j \in 1..Len(df[i].strength_block.entries) :
                              df[i].strength_block.entries[j] = ret.out.e

C25_Witness ==
    /\ Returned_("get_last_strength_entry")
    /\ Len(call.df) = 3
    /\ call.current_date = 3
    /\ call.df[1].date = 1
    /\ call.df[2].date = 2
    /\ call.df[3].date = 1
    /\ \A i \in 1..3 : call.df[i].strength_block.k = "list"
    /\ ret.out = [found |-> TRUE, e |-> Entry("bench", 2), date |-> 2]

\* C26: _suggest_sets returns max(base_sets - 1, 1) only when the fatigue
\* score is at most 2 and the last RPE is at least 9, adds one set only
\* for accessories when the fatigue score is at least 4 and the last RPE
\* at most 6, and returns base_sets otherwise.
C26_TrimOnlyWhenBoth ==
    Returned_("_suggest_sets") =>
        LET f == call.fatigue_score
            r == call.last_rpe
        IN  ret.out =
                IF f # NoNumber /\ f <= 2 /\ r # NoNumber /\ r >= 9
                    THEN Max2(call.base_sets - 1, 1)
                ELSE IF f # NoNumber /\ f >= 4 /\ r # NoNumber /\ r <= 6
                        /\ ~call.primary
                    THEN call.base_sets + 1
                ELSE call.base_sets

\* C26, what the code does: it trims when either condition holds; the rest
\* of the claim stands, and from base_sets >= 1 the result is >= 1.
C26_TrimWhenEither ==
    Returned_("_suggest_sets") =>
        LET f == call.fatigue_score
            r == call.last_rpe
        IN  /\ ret.out =
                   IF (f # NoNumber /\ f <= 2) \/ (r # NoNumber /\ r >= 9)
                       THEN Max2(call.base_sets - 1, 1)
                   ELSE IF f # NoNumber /\ f >= 4 /\ r # NoNumber /\ r <= 6
                           /\ ~call.primary
                       THEN call.base_sets + 1
                   ELSE call.base_sets
            /\ call.base_sets >= 1 => ret.out >= 1

C26_TrimmedOnFatigueAlone ==
    /\ Returned_("_suggest_sets")
    /\ call.base_sets = 3
    /\ call.fatigue_score = 2
    /\ call.last_rpe = 6
    /\ ret.out = 2

\* The rows the log file stores for a day, each as it reads (the date's
\* day, the notes as read_csv takes them).
StoredRows(day) ==
    SelectSeq(ReadLog(logFile), LAMBDA r : r.date.day = day)

\* The rows stored for every day but d are the same before and after.
OtherDaysKept(d) ==
    \A day \in LogDays \ {d} : StoredRows(day)' = StoredRows(day)

\* C27: for every prior state of the log file, a save_log_row call leaves
\* the stored rows of every date but the saved one present and unchanged,
\* a file that cannot be read as CSV included: a save changes the rows of
\* one date at most.
C27_OtherDatesKept ==
    [][\E d \in LogDays : OtherDaysKept(d)]_vars

\* C27, what holds: the rows of the other dates are kept when the file is
\* absent or read_csv accepts it.
C27_OtherDatesKeptIfReadable ==
    [][(~logFile.exists \/ ~ReadCsvRaises(logFile))
           => \E d \in LogDays : OtherDaysKept(d)]_vars

\* Both calls of save_log_row have returned.
BothSaved == \A p \in Procs : saver[p].pc = "done"

\* The log holds the row call p was given, as it reads once written.
HoldsRowOf(p) ==
    \E i \in 1..Len(logFile.rows) :
        /\ logFile.rows[i].date.day = saver[p].day
        /\ FromCsv(logFile.rows[i].notes) = FromCsv(ToCsv(saver[p].notes))

\* C28: when two save_log_row calls for different dates run at once, in
\* every interleaving the final log holds both new rows.
C28_NoLostUpdate ==
    BothSaved => \A p \in Procs : HoldsRowOf(p)

\* C28, what holds: the row of the call that wrote last is in the log.
C28_LastWriterKept ==
    BothSaved => \E p \in Procs : HoldsRowOf(p)

\* C28: both calls read before either wrote, and the first row is gone.
C28_UpdateLost ==
    /\ BothSaved
    /\ HoldsRowOf(2)
    /\ ~HoldsRowOf(1)
    /\ Len(logFile.rows) = 2

\* What load_existing_day and _iter_strength_entries made of the day.
LiteralReadersDecode ==
    /\ ret.out.load_existing_day.strength_block = call.strength_entries
    /\ ret.out.load_existing_day.cardio_sessions = call.cardio_entries
    /\ ret.out.iter_strength_entries = call.strength_entries

\* C29: the strength_block and cardio_sessions lists the Today page writes
\* with str(list) are decoded back to the same lists by every reader of
\* the log, load_existing_day, _iter_strength_entries and load_logs of
\* the Analytics page; none fails or yields an empty list for a saved
\* list that is not empty.
C29_EveryReaderDecodes ==
    Returned_("read_saved_day") =>
        /\ LiteralReadersDecode
        /\ ~ret.out.load_logs.raised
        /\ ret.out.load_logs.strength_block = call.strength_entries
        /\ ret.out.load_logs.cardio_sessions = call.cardio_entries

\* C29, what holds: the two readers that use ast.literal_eval decode the
\* lists, and load_logs reads a day whose two lists are empty.
C29_LiteralEvalReadersDecode ==
    Returned_("read_saved_day") =>
        /\ LiteralReadersDecode
        /\ (call.strength_entries = <<>> /\ call.cardio_entries = <<>>)
               => ~ret.out.load_logs.raised

\* C29: a day with one strength entry was saved and load_logs raised.
C29_AnalyticsRaises ==
    /\ Returned_("read_saved_day")
    /\ Len(call.strength_entries) = 1
    /\ call.cardio_entries = <<>>
    /\ ret.out.load_logs.raised

\* The handle st.file_uploader hands over: a binary stream that can be
\* rewound, at its start.
FreshUpload(u) == CanReadBack(u) /\ u.pos = 0

====
